---- MODULE Spec2Model ----
(***************************************************************************)
(* Content-scoring engine of automated-content-optimizer.                  *)
(*                                                                         *)
(* The optimizers are stateless: every optimize_content call is a          *)
(* computation over its arguments.  The model is a client that, from idle, *)
(* makes one call (one action per operation, the whole handler in one      *)
(* step), observes the outcome and returns to idle.                        *)
(*                                                                         *)
(* A content string is represented by what the external tokenizers and the *)
(* HTML parser report about it (nltk word_tokenize / sent_tokenize,        *)
(* str.split, re, BeautifulSoup): a record of counts.  Ratios the code     *)
(* computes with float division are kept exact as records [n, d].          *)
(***************************************************************************)
EXTENDS Integers, Sequences, FiniteSets, TLC

VARIABLES op, args, outcome, result, ran, faulted, instance, memo,
          clock, answered, responses, redis_client, calls,
          analytics_data, tracking, monitor, coroutines, loop, sampler

\* the state of the optimizers and of their client
engineVars == <<op, args, outcome, result, ran, faulted, instance, memo>>

\* the rate limiting of src/middleware/security.py
rateVars == <<answered, responses>>

\* the rate limiting of api/middleware/rate_limiting.py
redisVars == <<redis_client, calls>>

\* the AnalyticsManager of src/core/analytics_manager.py
analyticsVars == <<analytics_data, tracking>>

\* the PerformanceMonitor of src/utils/monitoring.py, the request coroutines
\* of src/main.py, the event loop and the monitoring thread
monitorVars == <<monitor, coroutines, loop, sampler>>

\* the state of the services around the optimizers, with the clock
serviceVars == <<clock, rateVars, redisVars, analyticsVars, monitorVars>>

vars == <<op, args, outcome, result, ran, faulted, instance, memo,
          clock, answered, responses, redis_client, calls,
          analytics_data, tracking, monitor, coroutines, loop, sampler>>

(***************************************************************************)
(* Bounds of the model.                                                    *)
(***************************************************************************)
MaxKeywords == 2
MaxPlatforms == 2
MaxIssues == 12

(***************************************************************************)
(* Arithmetic helpers: exact ratios, Python's dict.get, max/min.           *)
(***************************************************************************)
Min(a, b) == IF a < b THEN a ELSE b

Max(a, b) == IF a > b THEN a ELSE b

Abs(a) == IF a < 0 THEN -a ELSE a

\* a / b if b else 0, as an exact ratio
Ratio(a, b) == IF b > 0 THEN [n |-> a, d |-> b] ELSE [n |-> 0, d |-> 1]

\* r > p/q, r < p/q, r = p/q for a ratio r with r.d > 0 and q > 0
RatGT(r, p, q) == r.n * q > p * r.d

RatLT(r, p, q) == r.n * q < p * r.d

RatIsInt(r) == r.n % r.d = 0

\* dict.get(key, default)
Get(m, k, default) == IF k \in DOMAIN m THEN m[k] ELSE default

\* dict.update(other): the keys of other overwrite
Update(m, other) == other @@ m

EmptyDict == [k \in {} |-> 0]

(***************************************************************************)
(* Contents.  A document is the record of what the tokenizers and parsers  *)
(* find in the content string.                                             *)
(*   chars     len(content)                                                *)
(*   tokChars  sum of len(word) over the tokens                            *)
(*   uniq      len(set(words))                                             *)
(*   words     len(word_tokenize(content))                                 *)
(*   sents     len(sent_tokenize(content))                                 *)
(*   complex   sentences with more than 25 tokens                          *)
(*   trans     tokens that are transition words                            *)
(*   claims    sentences matching a claim pattern                          *)
(*   cites     sentences matching a citation pattern                       *)
(*   questions sentences matching a question pattern                       *)
(*   convs     sentences matching a conversational pattern                 *)
(*   paras     len(content.split('\n\n'))                                  *)
(*   ctx, reasoning, evidence   patterns of each platform list found       *)
(*   h1, h2, links, images, lists, hs, ps   tags found by BeautifulSoup    *)
(*   wsWords   len(get_text() whitespace-normalised .split())              *)
(*   reSents   len(re.split(r'[.!?]+', cleaned text))                      *)
(*   kw        occurrences (str.count) of each keyword, lower-cased        *)
(***************************************************************************)
Keywords == {"seo", "ai"}

\* a target keyword that is not a str (e.g. the int 123): keyword.lower() raises
NonStr == "<int>"

WordCounts == {0, 20, 299, 300, 599, 600}

SentCounts == {0, 1, 10, 30}

ComplexCounts == {0, 3, 4}

\* word_tokenize tokenizes sentence by sentence, so the tokens of the content
\* are the tokens of its sentences; a sentence has at least one token and a
\* sentence that is not complex has at most 25.
LengthProfiles ==
    { p \in [words : WordCounts, sents : SentCounts, complex : ComplexCounts] :
        /\ (p.words = 0) <=> (p.sents = 0)
        /\ p.complex <= p.sents
        /\ p.words >= 26 * p.complex + (p.sents - p.complex)
        /\ (p.complex = 0) => (p.words <= 25 * p.sents) }

\* the length profiles used where sentence complexity is not read
SeoLengthProfiles ==
    { p \in LengthProfiles : p.complex = 0 \/ (p.sents = 10 /\ p.complex = 4) }

NoStyle == [paras |-> 1, ctx |-> 0, reasoning |-> 0, evidence |-> 0]

StyleProfiles ==
    { NoStyle, [paras |-> 12, ctx |-> 4, reasoning |-> 1, evidence |-> 3] }

\* the tags BeautifulSoup finds; hs counts the h1..h6 headings together
HtmlProfiles ==
    { h \in [h1 : 0..1, h2 : 0..1, hs : 0..2, links : 0..1, images : 0..1,
             lists : 0..1, ps : {0, 3}] : h.hs = h.h1 + h.h2 }

PlainHtml ==
    [h1 |-> 0, h2 |-> 0, hs |-> 0, links |-> 0, images |-> 0, lists |-> 0, ps |-> 0]

GeoProfiles ==
    [trans : {0, 2}, claims : {0, 3}, cites : {0, 1}, questions : {0, 1}, convs : {0, 1}]

PlainGeo == [trans |-> 0, claims |-> 0, cites |-> 0, questions |-> 0, convs |-> 0]

KwProfiles == [Keywords -> {0, 10}]

NoKw == [k \in Keywords |-> 0]

\* characters per token and size of the vocabulary assumed when a document
\* is assembled
CharsPerWord == 5

DistinctWords == 40

\* The document assembled from its profiles.  The whitespace word count
\* leaves out the punctuation tokens (one per sentence here); the regex
\* sentence split yields one more piece than there are terminators.
Doc(len, geo, html, style, kw) ==
    [ chars |-> CharsPerWord * len.words,
      words |-> len.words, sents |-> len.sents, complex |-> len.complex,
      trans |-> geo.trans, claims |-> geo.claims, cites |-> geo.cites,
      questions |-> geo.questions, convs |-> geo.convs,
      paras |-> style.paras, ctx |-> style.ctx,
      reasoning |-> style.reasoning, evidence |-> style.evidence,
      h1 |-> html.h1, h2 |-> html.h2, hs |-> html.hs, links |-> html.links,
      images |-> html.images, lists |-> html.lists, ps |-> html.ps,
      tokChars |-> (CharsPerWord - 1) * len.words,
      uniq |-> Min(len.words, DistinctWords),
      wsWords |-> len.words - len.sents, reSents |-> len.sents + 1,
      kw |-> kw ]

\* what any string satisfies: matches lie inside the text, and the empty
\* string has no tags, one (empty) paragraph and no matches
WellFormedDoc(c) ==
    /\ c.trans <= c.words
    /\ c.claims <= c.sents /\ c.cites <= c.sents
    /\ c.questions <= c.sents /\ c.convs <= c.sents
    /\ \A k \in Keywords : c.kw[k] <= c.chars
    /\ (c.chars = 0) =>
          (c.paras = 1 /\ c.ctx = 0 /\ c.reasoning = 0 /\ c.evidence = 0
           /\ c.hs = 0 /\ c.links = 0 /\ c.images = 0 /\ c.lists = 0 /\ c.ps = 0)

\* the empty string ""
EmptyContent ==
    Doc([words |-> 0, sents |-> 0, complex |-> 0], PlainGeo, PlainHtml, NoStyle, NoKw)

\* contents given to the SEO optimizer of core/seo: HTML and keywords vary
SeoDocs ==
    { c \in { Doc(l, PlainGeo, h, NoStyle, k) :
                l \in SeoLengthProfiles,
                h \in { x \in HtmlProfiles : x.lists = 0 /\ x.ps = 0 },
                k \in KwProfiles } :
        WellFormedDoc(c) }

\* contents given to the GEO optimizers: plain prose, the prose features vary
GeoDocs ==
    { c \in { Doc(l, g, PlainHtml, s, NoKw) :
                l \in { p \in LengthProfiles : p.words \in {0, 20, 300} },
                g \in GeoProfiles, s \in StyleProfiles } :
        WellFormedDoc(c) }

IsEmpty(content) == content.chars = 0

(***************************************************************************)
(* What a call hands back: a returned value or a raised exception, the     *)
(* extractors that ran (in order) and the extractor that threw, if any.    *)
(***************************************************************************)
Returned(value, steps) ==
    [outcome |-> "returned", result |-> value, ran |-> steps, faulted |-> "none"]

Raised(exc, steps, extractor) ==
    [outcome |-> "raised", result |-> [error |-> exc], ran |-> steps,
     faulted |-> extractor]

\* the target_keywords lists a caller passes (None and [] behave alike)
KeywordLists ==
    UNION { [1..n -> Keywords \cup {NonStr}] : n \in 0..MaxKeywords }

\* max_keyword_density in thousandths: -0.1, 0, 0.03, 1.5
Densities == {-100, 0, 30, 1500}

MinWordCounts == {100, 300}

\* the other arguments of an SEO call; BeautifulSoup raising is tried with the
\* default arguments only
SeoParams ==
    { p \in [min_word_count : MinWordCounts, max_keyword_density : Densities,
             soupRaises : BOOLEAN] :
        p.soupRaises => (p.min_word_count = 300 /\ p.max_keyword_density = 30) }

(***************************************************************************)
(* core/seo/seo_optimizer.py: SEOOptimizer                                 *)
(***************************************************************************)
\* the keywords of the list up to the first that is not a str, all if none
StrPrefix(target_keywords) ==
    LET bad == { i \in 1..Len(target_keywords) : target_keywords[i] = NonStr }
    IN  IF bad = {} THEN target_keywords
        ELSE SubSeq(target_keywords, 1,
                    (CHOOSE i \in bad : \A j \in bad : i <= j) - 1)

SEO_analyze_keywords(content, target_keywords, max_density) ==
    LET total_words == content.words
        density(k) == Ratio(content.kw[k], total_words)
        named == { target_keywords[i] : i \in 1..Len(target_keywords) }
        issues == SelectSeq(target_keywords,
                            LAMBDA k : RatGT(density(k), max_density, 1000))
        issueText == [i \in 1..Len(issues) |->
                        "Keyword '" \o issues[i] \o "' density exceeds recommended maximum"]
        keyword_metrics ==
            [keyword_density |-> [k \in named |-> density(k)],
             keyword_count |-> [k \in named |-> content.kw[k]]]
    IN  IF StrPrefix(target_keywords) # target_keywords
        THEN [raised |-> TRUE, value |-> EmptyDict]
        ELSE [raised |-> FALSE,
              value |-> IF issues = <<>> THEN keyword_metrics
                        ELSE Update(keyword_metrics, [issues |-> issueText])]

SEO_analyze_readability(content) ==
    [avg_sentence_length |-> Ratio(content.words, content.sents),
     avg_word_length |-> Ratio(content.tokChars, content.words),
     sentence_count |-> content.sents,
     paragraph_count |-> content.paras]

SEO_generate_meta_suggestions(content, target_keywords) ==
    [title |-> IF target_keywords # <<>>
               THEN SubSeq(target_keywords, 1, Min(2, Len(target_keywords)))
               ELSE <<"frequent words">>,
     description |-> IF content.sents > 0 THEN "first sentence" ELSE "",
     keywords |-> IF target_keywords # <<>> THEN target_keywords
                  ELSE <<"frequent words">>]

\* a variant that also reports the <p> elements, under the key
\* _analyze_readability uses for the paragraphs
SEO_analyze_structure_WritesParagraphs(content, soupRaises) ==
    IF ~soupRaises
    THEN [headings |-> [h1 |-> content.h1, h2 |-> content.h2, h3 |-> 0,
                        h4 |-> 0, h5 |-> 0, h6 |-> 0],
          links |-> content.links, images |-> content.images,
          lists |-> content.lists, paragraph_count |-> content.ps]
    ELSE [headings |-> EmptyDict, links |-> 0, images |-> 0, lists |-> 0]

\* soupRaises: BeautifulSoup raised on this content (the except branch)
SEO_analyze_structure(content, soupRaises) ==
    IF ~soupRaises
    THEN [headings |-> [h1 |-> content.h1, h2 |-> content.h2, h3 |-> 0,
                        h4 |-> 0, h5 |-> 0, h6 |-> 0],
          links |-> content.links, images |-> content.images,
          lists |-> content.lists]
    ELSE [headings |-> EmptyDict, links |-> 0, images |-> 0, lists |-> 0]

\* a variant that caps the score at 100 but has no floor
Clamp100_NoFloor(score) == Min(100, score)

Clamp100(score) == Max(0, Min(100, score))

\* a variant without the 10-point tier of 300 to 599 words
SEO_calculate_score_NoMiddleTier(metrics) ==
    LET wc == Get(metrics, "word_count", 0)
        s1 == IF wc < 300 THEN 100 - 20 ELSE 100
        s2 == IF RatGT(Get(metrics, "avg_sentence_length", Ratio(0, 1)), 25, 1)
              THEN s1 - 10 ELSE s1
        s3 == IF Get(Get(metrics, "headings", EmptyDict), "h1", 0) = 0
              THEN s2 - 10 ELSE s2
        s4 == IF Get(metrics, "links", 0) = 0 THEN s3 - 5 ELSE s3
        s5 == IF "issues" \in DOMAIN metrics
              THEN s4 - Len(metrics["issues"]) * 5 ELSE s4
    IN  Clamp100(s5)

\* a variant whose word-count tiers are inclusive at their upper bounds
SEO_calculate_score_InclusiveTiers(metrics) ==
    LET wc == Get(metrics, "word_count", 0)
        s1 == IF wc <= 300 THEN 100 - 20 ELSE IF wc <= 600 THEN 100 - 10 ELSE 100
        s2 == IF RatGT(Get(metrics, "avg_sentence_length", Ratio(0, 1)), 25, 1)
              THEN s1 - 10 ELSE s1
        s3 == IF Get(Get(metrics, "headings", EmptyDict), "h1", 0) = 0
              THEN s2 - 10 ELSE s2
        s4 == IF Get(metrics, "links", 0) = 0 THEN s3 - 5 ELSE s3
        s5 == IF "issues" \in DOMAIN metrics
              THEN s4 - Len(metrics["issues"]) * 5 ELSE s4
    IN  Clamp100(s5)

SEO_calculate_score(metrics) ==
    LET wc == Get(metrics, "word_count", 0)
        s1 == IF wc < 300 THEN 100 - 20 ELSE IF wc < 600 THEN 100 - 10 ELSE 100
        s2 == IF RatGT(Get(metrics, "avg_sentence_length", Ratio(0, 1)), 25, 1)
              THEN s1 - 10 ELSE s1
        s3 == IF Get(Get(metrics, "headings", EmptyDict), "h1", 0) = 0
              THEN s2 - 10 ELSE s2
        s4 == IF Get(metrics, "links", 0) = 0 THEN s3 - 5 ELSE s3
        s5 == IF "issues" \in DOMAIN metrics
              THEN s4 - Len(metrics["issues"]) * 5 ELSE s4
    IN  Clamp100(s5)

\* a variant that evaluates the image rule before the heading rules
SEO_generate_suggestions_ImagesFirst(metrics) ==
    LET headings == Get(metrics, "headings", EmptyDict)
    IN  (IF Get(metrics, "word_count", 0) < 300
         THEN <<"Increase content length to at least 300 words">> ELSE <<>>)
     \o (IF RatGT(Get(metrics, "avg_sentence_length", Ratio(0, 1)), 25, 1)
         THEN <<"Consider breaking down long sentences for better readability">>
         ELSE <<>>)
     \o (IF Get(metrics, "images", 0) = 0
         THEN <<"Consider adding relevant images with alt text">> ELSE <<>>)
     \o (IF Get(headings, "h1", 0) = 0
         THEN <<"Add an H1 heading to your content">> ELSE <<>>)
     \o (IF Get(headings, "h2", 0) = 0
         THEN <<"Consider adding H2 subheadings to structure your content">>
         ELSE <<>>)
     \o (IF Get(metrics, "links", 0) = 0
         THEN <<"Add relevant internal or external links">> ELSE <<>>)

SEO_generate_suggestions(metrics) ==
    LET headings == Get(metrics, "headings", EmptyDict)
    IN  (IF Get(metrics, "word_count", 0) < 300
         THEN <<"Increase content length to at least 300 words">> ELSE <<>>)
     \o (IF RatGT(Get(metrics, "avg_sentence_length", Ratio(0, 1)), 25, 1)
         THEN <<"Consider breaking down long sentences for better readability">>
         ELSE <<>>)
     \o (IF Get(headings, "h1", 0) = 0
         THEN <<"Add an H1 heading to your content">> ELSE <<>>)
     \o (IF Get(headings, "h2", 0) = 0
         THEN <<"Consider adding H2 subheadings to structure your content">>
         ELSE <<>>)
     \o (IF Get(metrics, "links", 0) = 0
         THEN <<"Add relevant internal or external links">> ELSE <<>>)
     \o (IF Get(metrics, "images", 0) = 0
         THEN <<"Consider adding relevant images with alt text">> ELSE <<>>)

\* a variant that applies a suggestion: it puts an H1 heading into the content
SEO_optimize_content_structure_AddsHeading(content, suggestions) ==
    IF suggestions # <<>> THEN [content EXCEPT !.h1 = 1, !.hs = @ + 1] ELSE content

SEO_optimize_content_structure(content, suggestions) == content

\* a variant whose length message is worded like the rule of
\* _generate_suggestions
LengthMessage_SameWording(word_count, min_word_count) ==
    "Increase content length to at least " \o ToString(min_word_count) \o " words"

\* f"Content length ({word_count} words) is below recommended minimum of
\* {min_word_count} words"
LengthMessage(word_count, min_word_count) ==
    "Content length (" \o ToString(word_count)
        \o " words) is below recommended minimum of "
        \o ToString(min_word_count) \o " words"

SEO_optimize_content(content, target_keywords, min_word_count, max_keyword_density, soupRaises) ==
    LET word_count == content.words
        m1 == [word_count |-> word_count]
        sug1 == IF word_count < min_word_count
                THEN << LengthMessage(word_count, min_word_count) >>
                ELSE <<>>
        kw == SEO_analyze_keywords(content, target_keywords, max_keyword_density)
        m2 == IF target_keywords # <<>> THEN Update(m1, kw.value) ELSE m1
        ran2 == IF target_keywords # <<>> THEN <<"keywords">> ELSE <<>>
        m3 == Update(m2, SEO_analyze_readability(content))
        meta_tags == SEO_generate_meta_suggestions(content, target_keywords)
        m4 == Update(m3, SEO_analyze_structure(content, soupRaises))
        score == SEO_calculate_score(m4)
        suggestions == sug1 \o SEO_generate_suggestions(m4)
    IN  IF target_keywords # <<>> /\ kw.raised
        THEN Raised("AttributeError", <<"word_count", "keywords">>, "keywords")
        ELSE Returned(
               [original_content |-> content,
                optimized_content |->
                    SEO_optimize_content_structure(content, suggestions),
                metrics |-> m4,
                suggestions |-> suggestions,
                score |-> score,
                meta_tags |-> meta_tags],
               <<"word_count">> \o ran2 \o <<"readability", "meta", "structure">>)


(***************************************************************************)
(* core/geo/geo_optimizer.py: GEOOptimizer                                 *)
(***************************************************************************)
PlatformNames == {"chatgpt", "claude", "voice", "invalid_platform"}

KnownPlatforms == {"chatgpt", "claude", "voice"}

DefaultPlatforms == <<"chatgpt", "claude", "voice">>

PlatformLists ==
    UNION { [1..n -> PlatformNames] : n \in 0..MaxPlatforms } \cup {DefaultPlatforms}

\* optimization_goals: nothing, or "context" with any of the other two
GoalSets == {{}} \cup { {"context"} \cup g : g \in SUBSET {"factual", "voice_search"} }

GEO_analyze_context_clarity(content) ==
    [context_clarity |->
        [sentence_count |-> content.sents,
         avg_sentence_length |-> Ratio(content.words, content.sents),
         unique_entities |-> Ratio(content.uniq, content.words),
         complex_sentence_ratio |-> Ratio(content.complex, content.sents),
         transition_density |-> Ratio(content.trans, content.sents)]]

GEO_analyze_factual_consistency(content) ==
    [factual_consistency |->
        [claim_count |-> content.claims,
         citation_count |-> content.cites,
         verifiable_statements |-> content.claims + content.cites]]

\* 100 - abs(15 - avg_sentence_length) * 3
DeviationScore(avg) ==
    [n |-> 100 * avg.d - Abs(15 * avg.d - avg.n) * 3, d |-> avg.d]

GEO_optimize_for_voice_search(content) ==
    [voice_search |->
        [question_count |-> content.questions,
         conversational_phrases |-> content.convs,
         natural_language_score |->
             DeviationScore(Ratio(content.words, content.sents))]]

GEO_optimize_for_chatgpt(content) ==
    [chatgpt_metrics |->
        [structure_score |-> Min(100, content.paras * 10),
         clarity_score |-> DeviationScore(Ratio(content.words, content.sents)),
         context_score |-> Min(100, content.ctx * 20)]]

GEO_optimize_for_claude(content) ==
    [claude_metrics |->
        [reasoning_score |-> Min(100, content.reasoning * 20),
         evidence_score |-> Min(100, content.evidence * 25),
         coherence_score |-> IF content.paras >= 3 THEN 100
                             ELSE content.paras * 33]]

GEO_optimize_for_platform(content, platform) ==
    LET metrics == [platform_score |-> 0, suggestions |-> <<>>]
    IN  IF platform = "chatgpt"
        THEN Update(metrics, GEO_optimize_for_chatgpt(content))
        ELSE IF platform = "claude"
        THEN Update(metrics, GEO_optimize_for_claude(content))
        ELSE IF platform = "voice"
        THEN Update(metrics, GEO_optimize_for_voice_search(content))
        ELSE metrics

\* a variant whose complexity threshold is 0.5 instead of 0.3
GEO_calculate_score_ComplexHalf(metrics) ==
    LET s0 == 100
        s1 == IF "context_clarity" \in DOMAIN metrics
                 /\ RatGT(metrics["context_clarity"]["complex_sentence_ratio"], 5, 10)
              THEN s0 - 10 ELSE s0
        s2 == IF "context_clarity" \in DOMAIN metrics
                 /\ RatLT(metrics["context_clarity"]["transition_density"], 2, 10)
              THEN s1 - 10 ELSE s1
        s3 == IF "factual_consistency" \in DOMAIN metrics
                 /\ metrics["factual_consistency"]["citation_count"] = 0
              THEN s2 - 15 ELSE s2
        s4 == IF "factual_consistency" \in DOMAIN metrics
                 /\ metrics["factual_consistency"]["verifiable_statements"] < 3
              THEN s3 - 10 ELSE s3
        s5 == IF "voice_search" \in DOMAIN metrics
                 /\ RatLT(metrics["voice_search"]["natural_language_score"], 70, 1)
              THEN s4 - 10 ELSE s4
        s6 == IF "voice_search" \in DOMAIN metrics
                 /\ metrics["voice_search"]["conversational_phrases"] = 0
              THEN s5 - 5 ELSE s5
    IN  Clamp100(s6)

\* a variant that deducts 10 instead of 15 for missing citations
GEO_calculate_score_CitationTen(metrics) ==
    LET s0 == 100
        s1 == IF "context_clarity" \in DOMAIN metrics
                 /\ RatGT(metrics["context_clarity"]["complex_sentence_ratio"], 3, 10)
              THEN s0 - 10 ELSE s0
        s2 == IF "context_clarity" \in DOMAIN metrics
                 /\ RatLT(metrics["context_clarity"]["transition_density"], 2, 10)
              THEN s1 - 10 ELSE s1
        s3 == IF "factual_consistency" \in DOMAIN metrics
                 /\ metrics["factual_consistency"]["citation_count"] = 0
              THEN s2 - 10 ELSE s2
        s4 == IF "factual_consistency" \in DOMAIN metrics
                 /\ metrics["factual_consistency"]["verifiable_statements"] < 3
              THEN s3 - 10 ELSE s3
        s5 == IF "voice_search" \in DOMAIN metrics
                 /\ RatLT(metrics["voice_search"]["natural_language_score"], 70, 1)
              THEN s4 - 10 ELSE s4
        s6 == IF "voice_search" \in DOMAIN metrics
                 /\ metrics["voice_search"]["conversational_phrases"] = 0
              THEN s5 - 5 ELSE s5
    IN  Clamp100(s6)

GEO_calculate_score(metrics) ==
    LET s0 == 100
        s1 == IF "context_clarity" \in DOMAIN metrics
                 /\ RatGT(metrics["context_clarity"]["complex_sentence_ratio"], 3, 10)
              THEN s0 - 10 ELSE s0
        s2 == IF "context_clarity" \in DOMAIN metrics
                 /\ RatLT(metrics["context_clarity"]["transition_density"], 2, 10)
              THEN s1 - 10 ELSE s1
        s3 == IF "factual_consistency" \in DOMAIN metrics
                 /\ metrics["factual_consistency"]["citation_count"] = 0
              THEN s2 - 15 ELSE s2
        s4 == IF "factual_consistency" \in DOMAIN metrics
                 /\ metrics["factual_consistency"]["verifiable_statements"] < 3
              THEN s3 - 10 ELSE s3
        s5 == IF "voice_search" \in DOMAIN metrics
                 /\ RatLT(metrics["voice_search"]["natural_language_score"], 70, 1)
              THEN s4 - 10 ELSE s4
        s6 == IF "voice_search" \in DOMAIN metrics
                 /\ metrics["voice_search"]["conversational_phrases"] = 0
              THEN s5 - 5 ELSE s5
    IN  Clamp100(s6)

GEO_generate_suggestions(metrics) ==
    (IF "context_clarity" \in DOMAIN metrics
        /\ RatGT(metrics["context_clarity"]["complex_sentence_ratio"], 3, 10)
     THEN <<"Simplify complex sentences for better AI comprehension">> ELSE <<>>)
 \o (IF "context_clarity" \in DOMAIN metrics
        /\ RatLT(metrics["context_clarity"]["transition_density"], 2, 10)
     THEN <<"Add more transition words to improve flow">> ELSE <<>>)
 \o (IF "factual_consistency" \in DOMAIN metrics
        /\ metrics["factual_consistency"]["citation_count"] = 0
     THEN <<"Add citations or references to support claims">> ELSE <<>>)
 \o (IF "factual_consistency" \in DOMAIN metrics
        /\ metrics["factual_consistency"]["verifiable_statements"] < 3
     THEN <<"Include more verifiable facts or statistics">> ELSE <<>>)
 \o (IF "voice_search" \in DOMAIN metrics
        /\ metrics["voice_search"]["question_count"] = 0
     THEN <<"Add natural questions to optimize for voice search">> ELSE <<>>)
 \o (IF "voice_search" \in DOMAIN metrics
        /\ metrics["voice_search"]["conversational_phrases"] = 0
     THEN <<"Include more conversational phrases">> ELSE <<>>)

GEO_apply_optimizations(content, suggestions, target_platforms) == content

\* results["metrics"][f"{platform}_metrics"] = platform_metrics, in list order
RECURSIVE GEO_platform_loop(_, _, _, _)
GEO_platform_loop(metrics, content, target_platforms, i) ==
    IF i > Len(target_platforms) THEN metrics
    ELSE GEO_platform_loop(
           Update(metrics,
                  (target_platforms[i] \o "_metrics") :>
                      GEO_optimize_for_platform(content, target_platforms[i])),
           content, target_platforms, i + 1)

PlatformSteps(target_platforms) ==
    [i \in 1..Len(target_platforms) |-> "platform:" \o target_platforms[i]]

GEO_optimize_content(content, target_platforms, optimization_goals) ==
    LET m1 == Update(EmptyDict, GEO_analyze_context_clarity(content))
        m2 == IF "factual" \in optimization_goals
              THEN Update(m1, GEO_analyze_factual_consistency(content)) ELSE m1
        m3 == IF "voice_search" \in optimization_goals
              THEN Update(m2, GEO_optimize_for_voice_search(content)) ELSE m2
        m4 == GEO_platform_loop(m3, content, target_platforms, 1)
        suggestions == GEO_generate_suggestions(m4)
        score == GEO_calculate_score(m4)
    IN  Returned(
          [original_content |-> content,
           optimized_content |->
               GEO_apply_optimizations(content, suggestions, target_platforms),
           metrics |-> m4,
           suggestions |-> suggestions,
           score |-> score],
          <<"context_clarity">>
          \o (IF "factual" \in optimization_goals
              THEN <<"factual_consistency">> ELSE <<>>)
          \o (IF "voice_search" \in optimization_goals
              THEN <<"voice_search">> ELSE <<>>)
          \o PlatformSteps(target_platforms))

(***************************************************************************)
(* src/core/geo_optimizer.py: the second GEOOptimizer (spaCy-based).       *)
(* What spaCy, the zero-shot classifier and the sentence transformer       *)
(* report about a content is part of the document record:                  *)
(*   tokens, sents, complex20 (sentences of more than 20 tokens), ents,    *)
(*   statements (sentences with a subject), confidence / structure /       *)
(*   context (model outputs, in tenths), trans, cites, questions, whwords  *)
(*   (regex counts).                                                       *)
(***************************************************************************)
Geo2Docs ==
    { c \in [chars : {0, 100}, tokens : {0, 100, 300}, sents : {0, 10},
             complex20 : ComplexCounts, ents : {2}, trans : {0, 1},
             cites : {0, 1}, statements : {0, 5}, confidence : {0, 6, 7},
             structure : {6, 7}, context : {5}, questions : {1},
             whwords : {0}] :
        /\ (c.chars = 0) <=> (c.tokens = 0)
        /\ (c.tokens = 0) <=> (c.sents = 0)
        /\ c.complex20 <= c.sents
        /\ c.tokens >= 21 * c.complex20 + (c.sents - c.complex20)
        /\ (c.complex20 = 0) => (c.tokens <= 20 * c.sents)
        /\ c.statements <= c.sents /\ c.ents <= c.chars
        /\ c.trans <= c.tokens /\ c.cites <= c.chars /\ c.questions <= c.chars
        /\ (c.statements = 0) <=> (c.confidence = 0)
        /\ (c.chars = 0) => (c.structure = 6) }

GEO2_analyze_context_clarity(content) ==
    [sentence_count |-> content.sents,
     avg_sentence_length |-> Ratio(content.tokens, content.sents),
     unique_entities |-> content.ents,
     complex_sentence_ratio |-> Ratio(content.complex20, content.sents),
     transition_density |-> Ratio(content.trans, content.sents)]

\* np.mean of the classifier's scores, 0.0 without statements
GEO2_calculate_statement_confidence(content) ==
    IF content.statements = 0 THEN Ratio(0, 1) ELSE Ratio(content.confidence, 10)

GEO2_analyze_factual_consistency(content) ==
    [citation_count |-> content.cites,
     verifiable_statements |-> content.statements,
     statement_confidence |-> GEO2_calculate_statement_confidence(content)]

GEO2_calculate_clarity_score(content) ==
    IF content.sents = 0 THEN Ratio(0, 1)
    ELSE Ratio(content.sents - content.complex20, content.sents)

GEO2_optimize_for_chatgpt(content) ==
    [structure_score |-> IF content.sents = 0 THEN Ratio(0, 1)
                         ELSE Ratio(content.structure, 10),
     clarity_score |-> GEO2_calculate_clarity_score(content),
     context_score |-> IF content.sents = 0 THEN Ratio(0, 1)
                       ELSE Ratio(content.context, 10)]

GEO2_optimize_for_claude(content) ==
    [platform_score |-> Ratio(0, 1), suggestions |-> <<>>]

GEO2_optimize_for_voice_search(content) ==
    [question_count |-> content.questions,
     conversational_phrases |-> content.whwords,
     natural_language_score |-> Ratio(0, 1)]

\* the platforms of the list up to the first unsupported one, all if none
KnownPrefix(target_platforms) ==
    LET bad == { i \in 1..Len(target_platforms) :
                   target_platforms[i] \notin KnownPlatforms }
    IN  IF bad = {} THEN target_platforms
        ELSE SubSeq(target_platforms, 1,
                    (CHOOSE i \in bad : \A j \in bad : i <= j) - 1)

\* only called on a supported platform; the else branch raises ValueError
GEO2_optimize_for_platform(content, platform) ==
    IF platform = "chatgpt" THEN GEO2_optimize_for_chatgpt(content)
    ELSE IF platform = "claude" THEN GEO2_optimize_for_claude(content)
    ELSE GEO2_optimize_for_voice_search(content)

GEO2_platform_metrics(content, target_platforms) ==
    [p \in { target_platforms[i] : i \in 1..Len(target_platforms) } |->
        GEO2_optimize_for_platform(content, p)]

GEO2_calculate_score(metrics) ==
    LET cc == Get(metrics, "context_clarity", EmptyDict)
        fc == Get(metrics, "factual_consistency", EmptyDict)
        pm == Get(metrics, "platform_metrics", EmptyDict)
        s1 == IF RatGT(Get(cc, "complex_sentence_ratio", Ratio(0, 1)), 3, 10)
              THEN 100 - 10 ELSE 100
        s2 == IF RatLT(Get(cc, "transition_density", Ratio(0, 1)), 1, 10)
              THEN s1 - 5 ELSE s1
        s3 == IF Get(fc, "citation_count", 0) = 0 THEN s2 - 10 ELSE s2
        s4 == IF RatLT(Get(fc, "statement_confidence", Ratio(0, 1)), 7, 10)
              THEN s3 - 15 ELSE s3
        s5 == IF "chatgpt" \in DOMAIN pm
                 /\ RatLT(Get(pm["chatgpt"], "structure_score", Ratio(0, 1)), 7, 10)
              THEN s4 - 5 ELSE s4
        s6 == IF "chatgpt" \in DOMAIN pm
                 /\ RatLT(Get(pm["chatgpt"], "clarity_score", Ratio(0, 1)), 7, 10)
              THEN s5 - 5 ELSE s5
        s7 == IF "voice" \in DOMAIN pm
                 /\ RatLT(Get(pm["voice"], "natural_language_score", Ratio(0, 1)), 7, 10)
              THEN s6 - 10 ELSE s6
    IN  Clamp100(s7)

\* the platform suggestions follow the insertion order of platform_metrics
RECURSIVE GEO2_platform_suggestions(_, _, _)
GEO2_platform_suggestions(pm, order, i) ==
    IF i > Len(order) THEN <<>>
    ELSE LET p == order[i]
             first == \A j \in 1..(i - 1) : order[j] # p
             here ==
               IF ~first THEN <<>>
               ELSE IF p = "chatgpt"
               THEN (IF RatLT(Get(pm[p], "structure_score", Ratio(0, 1)), 7, 10)
                     THEN <<"Improve content structure for better ChatGPT comprehension">>
                     ELSE <<>>)
                 \o (IF RatLT(Get(pm[p], "clarity_score", Ratio(0, 1)), 7, 10)
                     THEN <<"Enhance content clarity for ChatGPT">> ELSE <<>>)
               ELSE IF p = "voice"
               THEN (IF RatLT(Get(pm[p], "natural_language_score", Ratio(0, 1)), 7, 10)
                     THEN <<"Make content more conversational for voice search">>
                     ELSE <<>>)
               ELSE <<>>
         IN  here \o GEO2_platform_suggestions(pm, order, i + 1)

GEO2_generate_suggestions(metrics, target_platforms) ==
    LET cc == Get(metrics, "context_clarity", EmptyDict)
        fc == Get(metrics, "factual_consistency", EmptyDict)
        pm == Get(metrics, "platform_metrics", EmptyDict)
    IN  (IF RatGT(Get(cc, "complex_sentence_ratio", Ratio(0, 1)), 3, 10)
         THEN <<"Simplify complex sentences for better AI comprehension">>
         ELSE <<>>)
     \o (IF RatLT(Get(cc, "transition_density", Ratio(0, 1)), 1, 10)
         THEN <<"Add more transition words to improve flow">> ELSE <<>>)
     \o (IF Get(fc, "citation_count", 0) = 0
         THEN <<"Add citations or references to support claims">> ELSE <<>>)
     \o (IF RatLT(Get(fc, "statement_confidence", Ratio(0, 1)), 7, 10)
         THEN <<"Review and strengthen factual statements">> ELSE <<>>)
     \o GEO2_platform_suggestions(pm, target_platforms, 1)

GEO2_apply_optimizations(content, suggestions, target_platforms) == content

GEO2_optimize_content(content, target_platforms, optimization_goals) ==
    LET known == KnownPrefix(target_platforms)
        m1 == [context_clarity |-> GEO2_analyze_context_clarity(content),
               factual_consistency |-> GEO2_analyze_factual_consistency(content),
               platform_metrics |-> GEO2_platform_metrics(content, target_platforms)]
        m2 == IF "voice_search" \in optimization_goals
              THEN Update(m1, [voice_search |->
                                  GEO2_optimize_for_voice_search(content)])
              ELSE m1
        score == GEO2_calculate_score(m2)
        suggestions == GEO2_generate_suggestions(m2, target_platforms)
    IN  IF IsEmpty(content)
        THEN Raised("ValueError: Content cannot be empty", <<>>, "none")
        ELSE IF target_platforms = <<>>
        THEN Raised("ValueError: At least one target platform must be specified",
                    <<>>, "none")
        ELSE IF known # target_platforms
        THEN Raised("ValueError: Unsupported platform",
                    <<"context_clarity", "factual_consistency">>
                    \o PlatformSteps(known), "none")
        ELSE Returned(
               [original_content |-> content,
                optimized_content |->
                    GEO2_apply_optimizations(content, suggestions, target_platforms),
                metrics |-> m2,
                suggestions |-> suggestions,
                score |-> score],
               <<"context_clarity", "factual_consistency">>
               \o PlatformSteps(target_platforms)
               \o (IF "voice_search" \in optimization_goals
                   THEN <<"voice_search">> ELSE <<>>))

(***************************************************************************)
(* src/core/seo_optimizer.py: the second SEOOptimizer.  Its score is a     *)
(* float rounded to two decimals, kept here in hundredths.                 *)
(***************************************************************************)
\* contents given to the second SEO optimizer: headings, paragraphs, lists
Seo2Docs ==
    { c \in { Doc(l, PlainGeo, h, NoStyle, k) :
                l \in SeoLengthProfiles,
                h \in { x \in HtmlProfiles : x.links = 0 /\ x.images = 0 },
                k \in KwProfiles } :
        WellFormedDoc(c) }

SEO2_analyze_keywords(content, keywords) ==
    LET total_words == content.wsWords
        RECURSIVE Sum(_)
        Sum(i) == IF i = 0 THEN 0 ELSE content.kw[keywords[i]] + Sum(i - 1)
    IN  IF keywords = <<>>
        THEN [raised |-> FALSE, value |-> [density |-> Ratio(0, 1), count |-> 0]]
        ELSE IF StrPrefix(keywords) # keywords
        THEN [raised |-> TRUE, value |-> EmptyDict]
        ELSE [raised |-> FALSE,
              value |-> [density |-> Ratio(Sum(Len(keywords)), total_words),
                         count |-> Sum(Len(keywords))]]

SEO2_analyze_readability(content) ==
    LET avg == Ratio(content.wsWords, content.reSents)
    IN  IF content.wsWords = 0 THEN 0
        ELSE IF ~RatGT(avg, 15, 1) THEN 90
        ELSE IF ~RatGT(avg, 20, 1) THEN 75
        ELSE IF ~RatGT(avg, 25, 1) THEN 60
        ELSE 40

SEO2_analyze_structure(content) ==
    Min(100,
        (IF content.h1 > 0 THEN 30 ELSE 0)
      + (IF content.hs >= 2 THEN 20 ELSE 0)
      + (IF content.ps >= 3 THEN 25 ELSE 0)
      + (IF content.lists > 0 THEN 15 ELSE 0)
      + (IF content.chars > 1000 THEN 10 ELSE 0))

SEO2_generate_suggestions(word_count, keyword_usage, readability_score, structure_score, min_word_count, max_keyword_density) ==
    LET found ==
            (IF word_count < min_word_count
             THEN <<"Increase content length to at least "
                    \o ToString(min_word_count) \o " words">>
             ELSE <<>>)
         \o (IF RatGT(keyword_usage.density, max_keyword_density, 1000)
             THEN <<"Reduce keyword density to avoid keyword stuffing">>
             ELSE IF RatLT(keyword_usage.density, 1, 100)
             THEN <<"Increase keyword usage for better SEO">>
             ELSE <<>>)
         \o (IF readability_score < 60
             THEN <<"Improve readability by using shorter sentences">> ELSE <<>>)
         \o (IF structure_score < 70
             THEN <<"Improve content structure with proper headings and paragraphs">>
             ELSE <<>>)
    IN  IF found = <<>> THEN <<"Content is well optimized for SEO">> ELSE found

SEO2_optimize_structure(content, suggestions) == content

\* round(n / d) for n >= 0, d > 0, ties to even
RoundHalfEven(n, d) ==
    LET q == n \div d
        r == n % d
    IN  IF 2 * r < d THEN q
        ELSE IF 2 * r > d THEN q + 1
        ELSE IF q % 2 = 0 THEN q ELSE q + 1

\* round(total_score, 2) in hundredths: the weights 0.2, 0.3, 0.25, 0.25 on
\* min(100, wc / 10), min(100, density * 2000), readability, structure
SEO2_calculate_score(word_count, keyword_usage, readability_score, structure_score) ==
    LET dens == keyword_usage.density
        whole == Min(2000, 2 * word_count)
                 + 25 * (readability_score + structure_score)
        kwCapped == dens.n * 20 >= dens.d
    IN  IF kwCapped THEN Ratio(whole + 3000, 100)
        ELSE Ratio(RoundHalfEven(whole * dens.d + 60000 * dens.n, dens.d), 100)

SEO2_optimize_content(content, target_keywords, min_word_count, max_keyword_density, soupRaises) ==
    LET failure(steps, extractor) ==
            [outcome |-> "returned",
             result |-> [original_content |-> content,
                         optimized_content |-> content,
                         metrics |-> [error |-> "exception text"],
                         suggestions |-> <<"Error occurred during optimization">>,
                         score |-> Ratio(0, 100)],
             ran |-> steps, faulted |-> extractor]
        word_count == content.wsWords
        kw == SEO2_analyze_keywords(content, target_keywords)
        keyword_usage == kw.value
        readability_score == SEO2_analyze_readability(content)
        structure_score == SEO2_analyze_structure(content)
        suggestions ==
            SEO2_generate_suggestions(word_count, keyword_usage, readability_score,
                                      structure_score, min_word_count,
                                      max_keyword_density)
    IN  IF soupRaises THEN failure(<<"clean">>, "clean")
        ELSE IF kw.raised THEN failure(<<"clean", "keywords">>, "keywords")
        ELSE Returned(
               [original_content |-> content,
                optimized_content |-> SEO2_optimize_structure(content, suggestions),
                metrics |-> [word_count |-> word_count,
                             keyword_usage |-> keyword_usage,
                             readability_score |-> readability_score,
                             structure_score |-> structure_score],
                suggestions |-> suggestions,
                score |-> SEO2_calculate_score(word_count, keyword_usage,
                                               readability_score, structure_score)],
               <<"clean", "keywords", "readability", "structure">>)

(***************************************************************************)
(* api/routers/optimization.py: POST /optimize/combined, with the response *)
(* models of api/models/content.py.                                        *)
(***************************************************************************)
\* contents posted to the router: HTML, prose features and keywords vary
CombinedDocs ==
    { c \in { Doc(l, g, h, NoStyle, k) :
                l \in SeoLengthProfiles,
                g \in { x \in GeoProfiles :
                          x.claims = 0 /\ x.questions = 0 /\ x.trans = 0 },
                h \in { x \in HtmlProfiles :
                          x.h2 = 0 /\ x.images = 0 /\ x.lists = 0 /\ x.ps = 0 },
                k \in { x \in KwProfiles : x["ai"] = 0 } } :
        WellFormedDoc(c) }

\* seo_settings: the fields of SEOOptimizationRequest the handler reads
SeoSettings ==
    { [target_keywords |-> <<>>, min_word_count |-> 300, max_keyword_density |-> 30],
      [target_keywords |-> <<"seo">>, min_word_count |-> 300, max_keyword_density |-> 30],
      [target_keywords |-> <<"seo", "ai">>, min_word_count |-> 100,
       max_keyword_density |-> 1500] }

\* geo_settings: the fields of GEOOptimizationRequest the handler reads
GeoSettings ==
    [target_platforms : {<<>>, <<"chatgpt">>, <<"invalid_platform">>, DefaultPlatforms},
     optimization_goals : {{"context"}, {"context", "factual"},
                           {"context", "voice_search"},
                           {"context", "factual", "voice_search"}}]

SubscriptionPlans == {"free", "pro"}

\* GEOMetrics.platform_specific: Dict[str, Dict[str, float]].  It is given the
\* whole metrics dict; a "<platform>_metrics" entry holds a list ("suggestions")
\* and a nested dict, which are no floats, so validation raises.
ValidPlatformSpecific(metrics) ==
    \A k \in DOMAIN metrics :
        k \in {"context_clarity", "factual_consistency", "voice_search"}

\* a variant that divides with floor division
CombinedScore_FloorDiv(seo_score, geo_score) == Ratio((seo_score + geo_score) \div 2, 1)

\* combined_score = (seo_result["score"] + geo_result["score"]) / 2
CombinedScore(seo_score, geo_score) == Ratio(seo_score + geo_score, 2)

\* a variant that runs the GEO stage before the SEO stage
PipelineLog_GeoFirst(seo_ran, geo_ran) == geo_ran \o seo_ran

\* the steps of a combined request in the order they run: the SEO call
\* returns before the GEO call is made
PipelineLog(seo_ran, geo_ran) == seo_ran \o geo_ran

SaveTask == "add_task:save_optimization_result"

\* a variant that schedules the save before the optimizer is called
HandlerLog_SaveFirst(core_ran) == <<SaveTask>> \o core_ran

\* the steps of an answered request: those of the optimizer calls, then
\* background_tasks.add_task(save_optimization_result, ...)
HandlerLog(core_ran) == core_ran \o <<SaveTask>>

optimize_combined(content, seo_settings, geo_settings, plan) ==
    LET seo == SEO_optimize_content(content, seo_settings.target_keywords,
                                    seo_settings.min_word_count,
                                    seo_settings.max_keyword_density, FALSE)
        geo == GEO_optimize_content(seo.result.optimized_content,
                                    geo_settings.target_platforms,
                                    geo_settings.optimization_goals)
        combined_score == CombinedScore(seo.result.score, geo.result.score)
        \* what each stage was given and what it handed back
        stages ==
            [seo |-> [input |-> content, output |-> seo.result.optimized_content],
             geo |-> [input |-> seo.result.optimized_content,
                      output |-> geo.result.optimized_content]]
        response ==
            [original_content |-> content,
             optimized_content |-> geo.result.optimized_content,
             seo_metrics |-> [score |-> seo.result.score,
                              suggestions |-> seo.result.suggestions,
                              keyword_metrics |-> EmptyDict,
                              readability_metrics |-> EmptyDict,
                              structure_metrics |-> EmptyDict,
                              meta_tags |-> seo.result.meta_tags],
             geo_metrics |-> [score |-> geo.result.score,
                              suggestions |-> geo.result.suggestions,
                              context_clarity |->
                                  Get(geo.result.metrics, "context_clarity", EmptyDict),
                              factual_consistency |->
                                  Get(geo.result.metrics, "factual_consistency", EmptyDict),
                              voice_search |->
                                  Get(geo.result.metrics, "voice_search", EmptyDict),
                              platform_specific |-> geo.result.metrics],
             combined_score |-> combined_score]
    IN  IF plan \notin {"pro", "agency"}
        THEN [outcome |-> "raised",
              result |-> [status |-> 403, saved |-> FALSE], ran |-> <<>>,
              faulted |-> "none"]
        ELSE IF seo.outcome = "raised"
        THEN [outcome |-> "raised",
              result |-> [status |-> 500, saved |-> FALSE], ran |-> seo.ran,
              faulted |-> seo.faulted]
        ELSE IF ~ValidPlatformSpecific(geo.result.metrics)
        THEN [outcome |-> "raised",
              result |-> [status |-> 500, saved |-> FALSE],
              ran |-> PipelineLog(seo.ran, geo.ran), faulted |-> "none"]
        ELSE [outcome |-> "returned",
              result |-> [status |-> 200, saved |-> TRUE, response |-> response,
                          stages |-> stages],
              ran |-> HandlerLog(PipelineLog(seo.ran, geo.ran)), faulted |-> "none"]

\* POST /optimize/seo
optimize_seo(content, settings, plan) ==
    LET optimization_result ==
            SEO_optimize_content(content, settings.target_keywords,
                                 settings.min_word_count,
                                 settings.max_keyword_density, FALSE)
        r == optimization_result.result
        response ==
            [original_content |-> content,
             optimized_content |-> r.optimized_content,
             seo_metrics |-> [score |-> r.score,
                              suggestions |-> r.suggestions,
                              keyword_metrics |-> EmptyDict,
                              readability_metrics |-> EmptyDict,
                              structure_metrics |-> EmptyDict,
                              meta_tags |-> r.meta_tags],
             combined_score |-> r.score]
    IN  IF plan \notin {"pro", "agency"}
        THEN [outcome |-> "raised",
              result |-> [status |-> 403, saved |-> FALSE], ran |-> <<>>,
              faulted |-> "none"]
        ELSE IF optimization_result.outcome = "raised"
        THEN [outcome |-> "raised",
              result |-> [status |-> 500, saved |-> FALSE],
              ran |-> optimization_result.ran,
              faulted |-> optimization_result.faulted]
        ELSE [outcome |-> "returned",
              result |-> [status |-> 200, saved |-> TRUE, response |-> response],
              ran |-> HandlerLog(optimization_result.ran), faulted |-> "none"]

\* POST /optimize/geo
optimize_geo(content, settings, plan) ==
    LET optimization_result ==
            GEO_optimize_content(content, settings.target_platforms,
                                 settings.optimization_goals)
        r == optimization_result.result
        response ==
            [original_content |-> content,
             optimized_content |-> r.optimized_content,
             geo_metrics |-> [score |-> r.score,
                              suggestions |-> r.suggestions,
                              context_clarity |->
                                  Get(r.metrics, "context_clarity", EmptyDict),
                              factual_consistency |->
                                  Get(r.metrics, "factual_consistency", EmptyDict),
                              voice_search |->
                                  Get(r.metrics, "voice_search", EmptyDict),
                              platform_specific |-> r.metrics],
             combined_score |-> r.score]
    IN  IF plan \notin {"pro", "agency"}
        THEN [outcome |-> "raised",
              result |-> [status |-> 403, saved |-> FALSE], ran |-> <<>>,
              faulted |-> "none"]
        ELSE IF ~ValidPlatformSpecific(r.metrics)
        THEN [outcome |-> "raised",
              result |-> [status |-> 500, saved |-> FALSE],
              ran |-> optimization_result.ran, faulted |-> "none"]
        ELSE [outcome |-> "returned",
              result |-> [status |-> 200, saved |-> TRUE, response |-> response],
              ran |-> HandlerLog(optimization_result.ran), faulted |-> "none"]

(***************************************************************************)
(* Metric dicts handed to _calculate_score directly, as the unit tests do. *)
(***************************************************************************)
Opt(key, values) == {EmptyDict} \cup { key :> v : v \in values }

IssueList(n) == [i \in 1..n |-> "Keyword density too high"]

SeoMetricDicts ==
    { a @@ b @@ c @@ d @@ e :
        a \in Opt("word_count", {0, 299, 300, 599, 600, 1000}),
        b \in Opt("avg_sentence_length",
                  {Ratio(0, 1), Ratio(25, 1), Ratio(51, 2), Ratio(30, 1)}),
        c \in Opt("headings", {EmptyDict, [h1 |-> 0, h2 |-> 2], [h1 |-> 1, h2 |-> 0]}),
        d \in Opt("links", {0, 1}),
        e \in Opt("issues", { IssueList(n) : n \in 0..MaxIssues }) }

GeoMetricDicts ==
    { a @@ b @@ c :
        a \in Opt("context_clarity",
                  [complex_sentence_ratio : {Ratio(0, 1), Ratio(3, 10), Ratio(4, 10)},
                   transition_density : {Ratio(0, 1), Ratio(1, 10), Ratio(2, 10)}]),
        b \in Opt("factual_consistency",
                  [citation_count : {0, 1}, verifiable_statements : {0, 2, 3}]),
        c \in Opt("voice_search",
                  [natural_language_score : {Ratio(-35, 1), Ratio(60, 1), Ratio(70, 1),
                                             Ratio(100, 1)},
                   conversational_phrases : {0, 1}, question_count : {0, 1}]) }

(***************************************************************************)
(* The client: idle, one call, back to idle.                               *)
(***************************************************************************)
NoArgs == [none |-> TRUE]

\* What outlives a call: the attributes __init__ sets on the optimizer
\* instances and the default-argument lists of GEOOptimizer.optimize_content,
\* which Python creates once and shares between the calls that omit them.
NewInstance ==
    [stop_words |-> "english",
     target_platforms |-> DefaultPlatforms,
     optimization_goals |-> {"context", "factual", "voice_search"}]

\* no earlier call remembered
NoMemo == [set |-> FALSE]

\* the client addresses (request.client.host) requests come from
Clients == {"203.0.113.7", "198.51.100.9"}

\* no request answered yet
NoResponse == [status |-> 0]

\* track_content_performance not called yet
NoTracking == [called |-> FALSE]

\* the requests POST /process receives
NumRequests == 3

Requests == 1..NumRequests

\* no coroutine is running on the event loop
NoRequest == 0

\* PerformanceMonitor.__init__: the counter, the history, the thread started
PerformanceMonitor_init ==
    [active_requests |-> 0, metrics_history |-> <<>>, monitoring |-> TRUE]

\* the monitoring thread holds no collected metrics
NoMetrics == [active_requests |-> 0, response_time_ms |-> 0]

Init ==
    /\ op = "idle"
    /\ args = NoArgs
    /\ outcome = "none"
    /\ result = EmptyDict
    /\ ran = <<>>
    /\ faulted = "none"
    /\ instance = NewInstance
    /\ memo = NoMemo
    /\ clock = 0
    /\ answered = NoResponse
    /\ responses = [ip \in Clients |-> <<>>]
    /\ redis_client = EmptyDict
    /\ calls = EmptyDict
    /\ analytics_data = EmptyDict
    /\ tracking = NoTracking
    /\ monitor = PerformanceMonitor_init
    /\ coroutines = [r \in Requests |-> [pc |-> "new", loaded |-> 0]]
    /\ loop = NoRequest
    /\ sampler = [pc |-> "check", metrics |-> NoMetrics, samples |-> 0]

\* a variant in which a call uses up the shared default goal list
InstanceAfterCall_GoalsConsumed(inst) ==
    [inst EXCEPT !.optimization_goals = {}]

\* optimize_content assigns no attribute of self and mutates none of its
\* argument lists: the instance and the shared defaults are as before the call
InstanceAfterCall(inst) == inst

Finish(name, a, r) ==
    /\ op' = name
    /\ args' = a
    /\ outcome' = r.outcome
    /\ result' = r.result
    /\ ran' = r.ran
    /\ faulted' = r.faulted
    /\ instance' = InstanceAfterCall(instance)
    /\ UNCHANGED memo
    /\ UNCHANGED serviceVars

CallSeoOptimize ==
    /\ op = "idle"
    /\ \E content \in SeoDocs, target_keywords \in KeywordLists, p \in SeoParams :
          Finish("seo.optimize_content",
                 [content |-> content, target_keywords |-> target_keywords,
                  min_word_count |-> p.min_word_count,
                  max_keyword_density |-> p.max_keyword_density,
                  soupRaises |-> p.soupRaises],
                 SEO_optimize_content(content, target_keywords, p.min_word_count,
                                      p.max_keyword_density, p.soupRaises))

CallGeoOptimize ==
    /\ op = "idle"
    /\ \E content \in GeoDocs, target_platforms \in PlatformLists,
          optimization_goals \in GoalSets :
          Finish("geo.optimize_content",
                 [content |-> content, target_platforms |-> target_platforms,
                  optimization_goals |-> optimization_goals],
                 GEO_optimize_content(content, target_platforms,
                                      optimization_goals))

CallGeo2Optimize ==
    /\ op = "idle"
    /\ \E content \in Geo2Docs, target_platforms \in PlatformLists,
          optimization_goals \in GoalSets :
          Finish("geo2.optimize_content",
                 [content |-> content, target_platforms |-> target_platforms,
                  optimization_goals |-> optimization_goals],
                 GEO2_optimize_content(content, target_platforms,
                                       optimization_goals))

CallSeo2Optimize ==
    /\ op = "idle"
    /\ \E content \in Seo2Docs, target_keywords \in KeywordLists, p \in SeoParams :
          Finish("seo2.optimize_content",
                 [content |-> content, target_keywords |-> target_keywords,
                  min_word_count |-> p.min_word_count,
                  max_keyword_density |-> p.max_keyword_density,
                  soupRaises |-> p.soupRaises],
                 SEO2_optimize_content(content, target_keywords, p.min_word_count,
                                       p.max_keyword_density, p.soupRaises))

CallOptimizeCombined ==
    /\ op = "idle"
    /\ \E content \in CombinedDocs, seo_settings \in SeoSettings,
          geo_settings \in GeoSettings, plan \in SubscriptionPlans :
          Finish("router.optimize_combined",
                 [content |-> content, seo_settings |-> seo_settings,
                  geo_settings |-> geo_settings, plan |-> plan],
                 optimize_combined(content, seo_settings, geo_settings, plan))

CallOptimizeSeo ==
    /\ op = "idle"
    /\ \E content \in CombinedDocs, settings \in SeoSettings,
          plan \in SubscriptionPlans :
          Finish("router.optimize_seo",
                 [content |-> content, settings |-> settings, plan |-> plan],
                 optimize_seo(content, settings, plan))

CallOptimizeGeo ==
    /\ op = "idle"
    /\ \E content \in CombinedDocs, settings \in GeoSettings,
          plan \in SubscriptionPlans :
          Finish("router.optimize_geo",
                 [content |-> content, settings |-> settings, plan |-> plan],
                 optimize_geo(content, settings, plan))

CallSeoCalculateScore ==
    /\ op = "idle"
    /\ \E metrics \in SeoMetricDicts :
          Finish("seo.calculate_score", [metrics |-> metrics],
                 Returned([score |-> SEO_calculate_score(metrics)], <<>>))

CallGeoCalculateScore ==
    /\ op = "idle"
    /\ \E metrics \in GeoMetricDicts :
          Finish("geo.calculate_score", [metrics |-> metrics],
                 Returned([score |-> GEO_calculate_score(metrics)], <<>>))

(***************************************************************************)
(* _analyze_keywords called directly, on texts described word by word.     *)
(* str.count counts the keyword as a substring, so a word that is not the  *)
(* keyword can hold occurrences of it ("banana" holds "an" twice).         *)
(*   kwWords     words equal to the keyword                                *)
(*   embedWords  other words holding the keyword twice                     *)
(*   plainWords  words without the keyword                                 *)
(***************************************************************************)
KeywordTexts == [kwWords : 0..2, embedWords : 0..1, plainWords : 0..2]

\* the content of a text, for the keyword k
ContentOfText(text, k) ==
    LET n == text.kwWords + text.embedWords + text.plainWords
    IN  Doc([words |-> n, sents |-> IF n > 0 THEN 1 ELSE 0, complex |-> 0],
            PlainGeo, PlainHtml, NoStyle,
            [j \in Keywords |->
                IF j = k THEN text.kwWords + 2 * text.embedWords ELSE 0])

\* the text with one word of the given kind replaced by the keyword
ReplaceByKeyword(text, kind) ==
    IF kind = "plain"
    THEN [text EXCEPT !.plainWords = @ - 1, !.kwWords = @ + 1]
    ELSE [text EXCEPT !.embedWords = @ - 1, !.kwWords = @ + 1]

CallSeoAnalyzeKeywords ==
    /\ op = "idle"
    /\ \E text \in KeywordTexts, k \in Keywords, max_density \in {30, 1000} :
          Finish("seo.analyze_keywords",
                 [text |-> text, keyword |-> k, max_density |-> max_density],
                 Returned(SEO_analyze_keywords(ContentOfText(text, k), <<k>>,
                                               max_density).value, <<>>))

\* the same analysis after one word that is not the keyword was replaced by
\* the keyword; the metrics of the text before are kept in the arguments
CallSeoAnalyzeKeywordsAfterReplace ==
    /\ op = "seo.analyze_keywords"
    /\ args.text.kwWords < 2
    /\ \E kind \in {"plain", "embed"} :
          /\ (kind = "plain") => args.text.plainWords > 0
          /\ (kind = "embed") => args.text.embedWords > 0
          /\ LET text == ReplaceByKeyword(args.text, kind)
             IN  Finish("seo.analyze_keywords.after_replace",
                        [text |-> text, keyword |-> args.keyword,
                         max_density |-> args.max_density,
                         replaced |-> kind, before |-> result],
                        Returned(SEO_analyze_keywords(
                                     ContentOfText(text, args.keyword),
                                     <<args.keyword>>, args.max_density).value,
                                 <<>>))

\* contents given to _optimize_for_platform directly: no sentence, sentences
\* of 15 and of 20 tokens, one sentence of 60 tokens, ten sentences of 30
AllPlatformDocs ==
    { Doc(l, g, PlainHtml, NoStyle, NoKw) :
        l \in { [words |-> 0, sents |-> 0, complex |-> 0],
                [words |-> 15, sents |-> 1, complex |-> 0],
                [words |-> 20, sents |-> 1, complex |-> 0],
                [words |-> 60, sents |-> 1, complex |-> 1],
                [words |-> 300, sents |-> 10, complex |-> 10] },
        g \in { PlainGeo, [PlainGeo EXCEPT !.questions = 1, !.convs = 1] } }

PlatformDocs == { c \in AllPlatformDocs : WellFormedDoc(c) }

CallGeoOptimizeForPlatform ==
    /\ op = "idle"
    /\ \E content \in PlatformDocs, platform \in PlatformNames :
          Finish("geo.optimize_for_platform",
                 [content |-> content, platform |-> platform],
                 Returned(GEO_optimize_for_platform(content, platform), <<>>))

(***************************************************************************)
(* The metric groups of a result, merged in another order than the code's. *)
(* Each extractor returns a dict that optimize_content merges into         *)
(* results["metrics"] with dict.update; score and suggestions are computed *)
(* from the merged dict.                                                   *)
(***************************************************************************)
\* the orders in which n groups can be merged
Orders(n) ==
    { f \in [1..n -> 1..n] : \A i, j \in 1..n : f[i] = f[j] => i = j }

\* metrics.update(groups[order[i]]) for i, i + 1, ...
RECURSIVE MergeGroups(_, _, _, _)
MergeGroups(metrics, groups, order, i) ==
    IF i > Len(order) THEN metrics
    ELSE MergeGroups(Update(metrics, groups[order[i]]), groups, order, i + 1)

\* what the extractors of SEOOptimizer.optimize_content hand back, in the
\* order of the code
SEO_metric_groups(content, target_keywords, max_keyword_density) ==
    << [word_count |-> content.words] >>
    \o (IF target_keywords # <<>>
        THEN << SEO_analyze_keywords(content, target_keywords,
                                     max_keyword_density).value >>
        ELSE <<>>)
    \o << SEO_analyze_readability(content), SEO_analyze_structure(content, FALSE) >>

\* what the extractors of GEOOptimizer.optimize_content hand back, in the
\* order of the code
GEO_metric_groups(content, target_platforms, optimization_goals) ==
    << GEO_analyze_context_clarity(content) >>
    \o (IF "factual" \in optimization_goals
        THEN << GEO_analyze_factual_consistency(content) >> ELSE <<>>)
    \o (IF "voice_search" \in optimization_goals
        THEN << GEO_optimize_for_voice_search(content) >> ELSE <<>>)
    \o [i \in 1..Len(target_platforms) |->
           (target_platforms[i] \o "_metrics") :>
               GEO_optimize_for_platform(content, target_platforms[i])]

\* the SEO result with the groups merged in the given order
SEO_merged_result(content, target_keywords, min_word_count, max_keyword_density, order) ==
    LET groups == SEO_metric_groups(content, target_keywords, max_keyword_density)
        metrics == MergeGroups(EmptyDict, groups, order, 1)
        sug1 == IF content.words < min_word_count
                THEN << LengthMessage(content.words, min_word_count) >>
                ELSE <<>>
    IN  [metrics |-> metrics,
         score |-> SEO_calculate_score(metrics),
         suggestions |-> sug1 \o SEO_generate_suggestions(metrics)]

\* the GEO result with the groups merged in the given order
GEO_merged_result(content, target_platforms, optimization_goals, order) ==
    LET groups == GEO_metric_groups(content, target_platforms, optimization_goals)
        metrics == MergeGroups(EmptyDict, groups, order, 1)
    IN  [metrics |-> metrics,
         score |-> GEO_calculate_score(metrics),
         suggestions |-> GEO_generate_suggestions(metrics)]

\* contents and arguments of the reordered runs
MergeSeoDocs ==
    { c \in SeoDocs : /\ c.words \in {0, 299, 600} /\ c.complex = 0
                      /\ c.h2 = 0 /\ c.images = c.links /\ c.kw["ai"] = 0 }

MergeGeoDocs ==
    { c \in GeoDocs : /\ c.words \in {0, 300} /\ c.complex \in {0, 4}
                      /\ c.paras = 1 /\ c.claims = 0 /\ c.cites = 0
                      /\ c.questions = c.convs }

MergeSeoArgs ==
    [content : MergeSeoDocs, target_keywords : {<<>>, <<"seo">>, <<"seo", "ai">>},
     min_word_count : {300}, max_keyword_density : {30}]

MergeGeoArgs ==
    [content : MergeGeoDocs,
     target_platforms : {<<>>, <<"voice">>, <<"chatgpt", "voice">>,
                         <<"voice", "voice">>},
     optimization_goals : {{"context"}, {"context", "factual", "voice_search"}}]

CallSeoMerged ==
    /\ op = "idle"
    /\ \E a \in MergeSeoArgs :
          \E order \in Orders(Len(SEO_metric_groups(a.content, a.target_keywords,
                                                    a.max_keyword_density))) :
              Finish("seo.merged", a @@ [order |-> order],
                     Returned(SEO_merged_result(a.content, a.target_keywords,
                                                a.min_word_count,
                                                a.max_keyword_density, order),
                              <<>>))

CallGeoMerged ==
    /\ op = "idle"
    /\ \E a \in MergeGeoArgs :
          \E order \in Orders(Len(GEO_metric_groups(a.content, a.target_platforms,
                                                    a.optimization_goals))) :
              Finish("geo.merged", a @@ [order |-> order],
                     Returned(GEO_merged_result(a.content, a.target_platforms,
                                                a.optimization_goals, order),
                              <<>>))

Done ==
    /\ op # "idle"
    /\ op' = "idle"
    /\ args' = NoArgs
    /\ outcome' = "none"
    /\ result' = EmptyDict
    /\ ran' = <<>>
    /\ faulted' = "none"
    /\ UNCHANGED <<instance, memo>>
    /\ UNCHANGED serviceVars

Next ==
    \/ CallSeoOptimize
    \/ CallGeoOptimize
    \/ CallGeo2Optimize
    \/ CallSeo2Optimize
    \/ CallOptimizeCombined
    \/ CallOptimizeSeo
    \/ CallOptimizeGeo
    \/ CallSeoCalculateScore
    \/ CallGeoCalculateScore
    \/ CallSeoAnalyzeKeywords
    \/ CallSeoAnalyzeKeywordsAfterReplace
    \/ CallGeoOptimizeForPlatform
    \/ CallSeoMerged
    \/ CallGeoMerged
    \/ Done

Spec == Init /\ [][Next]_vars

(***************************************************************************)
(* Repeated calls on the same optimizer instances.  A call may be          *)
(* remembered; later calls, after any others, are compared with it.        *)
(***************************************************************************)
\* contents and arguments of the repeated calls
RepeatSeoDocs ==
    { c \in SeoDocs : /\ c.words \in {0, 299, 600} /\ c.complex = 0
                      /\ c.h1 = c.h2 /\ c.links = c.h1 /\ c.images = c.h1
                      /\ c.kw["ai"] = 0 }

RepeatSeoArgs ==
    [content : RepeatSeoDocs, target_keywords : {<<>>, <<"seo">>},
     min_word_count : {300}, max_keyword_density : {30}]

RepeatGeoDocs ==
    { c \in GeoDocs : /\ c.words \in {0, 300} /\ c.complex = 0
                      /\ c.paras = 1 /\ c.trans = 0 /\ c.claims = 0
                      /\ c.questions = c.convs }

\* omitted: the caller left target_platforms and optimization_goals out
RepeatGeoArgs ==
    { a \in [content : RepeatGeoDocs, omitted : BOOLEAN,
             target_platforms : {<<>>, <<"chatgpt">>},
             optimization_goals : {{}, {"context", "factual"}}] :
        a.omitted => (a.target_platforms = <<>> /\ a.optimization_goals = {}) }

\* the call made now differs from the remembered one: note it
MemoAfterCall(name, a) ==
    IF memo.set /\ (memo.op # name \/ memo.args # a)
    THEN [memo EXCEPT !.between = TRUE]
    ELSE memo

FinishOnInstance(name, a, r) ==
    /\ op' = name
    /\ args' = a
    /\ outcome' = r.outcome
    /\ result' = r.result
    /\ ran' = r.ran
    /\ faulted' = r.faulted
    /\ instance' = InstanceAfterCall(instance)
    /\ memo' = MemoAfterCall(name, a)
    /\ UNCHANGED serviceVars

InstanceSeoCall ==
    /\ op = "idle"
    /\ \E a \in RepeatSeoArgs :
          FinishOnInstance("seo.optimize_content", a,
              SEO_optimize_content(a.content, a.target_keywords, a.min_word_count,
                                   a.max_keyword_density, FALSE))

InstanceGeoCall ==
    /\ op = "idle"
    /\ \E a \in RepeatGeoArgs :
          FinishOnInstance("geo.optimize_content", a,
              GEO_optimize_content(
                  a.content,
                  IF a.omitted THEN instance.target_platforms
                  ELSE a.target_platforms,
                  IF a.omitted THEN instance.optimization_goals
                  ELSE a.optimization_goals))

\* remember the call just made
Remember ==
    /\ op # "idle" /\ outcome = "returned"
    /\ ~memo.set
    /\ memo' = [set |-> TRUE, op |-> op, args |-> args,
                metrics |-> result.metrics, score |-> result.score,
                between |-> FALSE]
    /\ UNCHANGED <<op, args, outcome, result, ran, faulted, instance>>
    /\ UNCHANGED serviceVars

NextRepeat ==
    \/ InstanceSeoCall
    \/ InstanceGeoCall
    \/ Remember
    \/ Done

SpecRepeat == Init /\ [][NextRepeat]_vars

(***************************************************************************)
(* src/middleware/security.py: the rate limiting of security_middleware,   *)
(* registered in src/main.py with app.middleware("http").                  *)
(*   clock      time.time(), in seconds                                    *)
(*   answered   the answer to the latest request                           *)
(*   responses  for each client the requests of the last 60 seconds,       *)
(*              grouped by arrival time: how many it sent and how many of  *)
(*              them were answered 429                                     *)
(***************************************************************************)
\* seconds from one request to the next
Gaps == {0, 60}

MaxClock == 120

\* the requests of one client followed within 60 seconds
MaxRequests == 61

\* the content-length header: absent, or the number it holds
NoHeader == -1

ContentLengths == {NoHeader, 0, 50 * 1024 * 1024 + 1}

HttpRequests == [client : Clients, content_length : ContentLengths]

\* RateLimiter.__init__
RateLimiter_init ==
    [requests_per_minute |-> 60, requests |-> EmptyDict]

\* RateLimiter.check_rate_limit: the limiter afterwards and whether
\* HTTPException(429) was raised
check_rate_limit(self, client_ip, current_time) ==
    LET known == Get(self.requests, client_ip, <<>>)
        recent == SelectSeq(known, LAMBDA req_time : current_time - req_time < 60)
    IN  IF Len(recent) >= self.requests_per_minute
        THEN [raised |-> TRUE,
              self |-> [self EXCEPT !.requests = Update(@, client_ip :> recent)]]
        ELSE [raised |-> FALSE,
              self |-> [self EXCEPT !.requests =
                            Update(@, client_ip :> Append(recent, current_time))]]

\* SecurityMiddleware.__init__: a new RateLimiter and a new SecurityValidator
SecurityMiddleware_init ==
    [rate_limiter |-> RateLimiter_init,
     validator |-> [max_file_size |-> 50 * 1024 * 1024]]

\* SecurityMiddleware.process_request: the status of the HTTPException it
\* raises, 0 if it raises none
process_request(self, request, current_time) ==
    IF check_rate_limit(self.rate_limiter, request.client, current_time).raised
    THEN 429
    ELSE IF request.content_length # NoHeader
            /\ request.content_length > self.validator.max_file_size
    THEN 400
    ELSE 0

\* security_middleware: the status of the response.  Every request builds
\* its own SecurityMiddleware; call_next answers 200.
security_middleware(request, current_time) ==
    LET security == SecurityMiddleware_init
        raised == process_request(security, request, current_time)
    IN  IF raised # 0 THEN raised ELSE 200

\* the requests of a log that are less than 60 seconds old at time at
InWindow(log, at) == SelectSeq(log, LAMBDA e : at - e.at < 60)

\* the log of a client after its request at time at was answered with status
Logged(log, at, status) ==
    LET kept == InWindow(log, at)
        n == Len(kept)
        limited == IF status = 429 THEN 1 ELSE 0
    IN  IF n > 0 /\ kept[n].at = at
        THEN [kept EXCEPT ![n].sent = @ + 1, ![n].limited = @ + limited]
        ELSE Append(kept, [at |-> at, sent |-> 1, limited |-> limited])

RECURSIVE SumOver(_, _)
SumOver(log, field) ==
    IF log = <<>> THEN 0 ELSE log[1][field] + SumOver(Tail(log), field)

\* requests a client sent, and requests of it answered 429, in the last 60
\* seconds
Sent(ip) == SumOver(responses[ip], "sent")

Limited(ip) == SumOver(responses[ip], "limited")

\* a request arrives gap seconds after the one before and is answered
HttpRequest ==
    \E request \in HttpRequests, gap \in Gaps :
        LET current_time == clock + gap
            status == security_middleware(request, current_time)
        IN  /\ current_time <= MaxClock
            /\ SumOver(InWindow(responses[request.client], current_time), "sent")
                   < MaxRequests
            /\ clock' = current_time
            /\ answered' = [client |-> request.client, at |-> current_time,
                            status |-> status]
            /\ responses' =
                   [ip \in Clients |->
                       IF ip = request.client
                       THEN Logged(responses[ip], current_time, status)
                       ELSE InWindow(responses[ip], current_time)]
            /\ UNCHANGED <<engineVars, redisVars, analyticsVars, monitorVars>>

NextRate == HttpRequest

SpecRate == Init /\ [][NextRate]_vars

(***************************************************************************)
(* api/middleware/rate_limiting.py: the Redis-backed RateLimiter, used by  *)
(* check_rate_limit(request, limit, window) with the limit and the window  *)
(* of an endpoint.                                                         *)
(*   redis_client  for each key its sorted set (the scores; a member is    *)
(*                 str(score)) and the time at which the key expires       *)
(*   calls         for each key the is_allowed calls less than `window`    *)
(*                 seconds old: their time and what they returned          *)
(* datetime.utcnow() has microsecond resolution: every call reads a later  *)
(* time than the call before.                                              *)
(***************************************************************************)
\* the limit and the window (seconds) the endpoint asks for
Limit == 2

Window == 3

MaxRedisClock == 8

\* seconds from one call to the next
RedisGaps == 1..(Window + 1)

NoApiKey == "<none>"

ApiRequests ==
    [path : {"/optimize/seo"}, api_key : {NoApiKey, "key-1"},
     client : {"203.0.113.7"}]

\* RateLimiter.__init__
RedisRateLimiter_init(key_prefix, limit, window) ==
    [key_prefix |-> key_prefix, limit |-> limit, window |-> window]

\* RateLimiter._get_key
RateLimiter_get_key(self, identifier) == self.key_prefix \o ":" \o identifier

\* the sorted set stored under key at time now: empty once the key expired
StoredSet(redis, key, now) ==
    IF key \in DOMAIN redis /\ now < redis[key].expires
    THEN redis[key].scores ELSE {}

\* RateLimiter.is_allowed: the pipeline zremrangebyscore(key, 0,
\* now - window), zcard(key), zadd(key, {str(now): now}), expire(key, window)
is_allowed(self, identifier, now, redis) ==
    LET key == RateLimiter_get_key(self, identifier)
        window_start == now - self.window
        kept == { score \in StoredSet(redis, key, now) :
                    ~(0 <= score /\ score <= window_start) }
        current_requests == Cardinality(kept)
    IN  [redis |-> Update(redis, key :> [scores |-> kept \cup {now},
                                        expires |-> now + self.window]),
         returned |-> current_requests <= self.limit]

\* RateLimiter.get_remaining: zremrangebyscore, zcard, zrange(key, 0, 0)
get_remaining(self, identifier, now, redis) ==
    LET key == RateLimiter_get_key(self, identifier)
        window_start == now - self.window
        kept == { score \in StoredSet(redis, key, now) :
                    ~(0 <= score /\ score <= window_start) }
    IN  [redis |-> IF key \in DOMAIN redis /\ now < redis[key].expires
                   THEN Update(redis, key :> [redis[key] EXCEPT !.scores = kept])
                   ELSE redis,
         returned |-> [remaining |-> Max(0, self.limit - Cardinality(kept)),
                       limit |-> self.limit]]

\* check_rate_limit(request, limit, window): the store afterwards, the key
\* used, what is_allowed returned and the status raised (0: none)
redis_check_rate_limit(request, limit, window, now, redis) ==
    LET identifier == IF request.api_key # NoApiKey THEN request.api_key
                      ELSE request.client
        rate_limiter == RedisRateLimiter_init("endpoint:" \o request.path,
                                               limit, window)
        allowed == is_allowed(rate_limiter, identifier, now, redis)
        remaining == get_remaining(rate_limiter, identifier, now, allowed.redis)
    IN  [key |-> RateLimiter_get_key(rate_limiter, identifier),
         allowed |-> allowed.returned,
         redis |-> IF allowed.returned THEN allowed.redis ELSE remaining.redis,
         status |-> IF allowed.returned THEN 0 ELSE 429]

\* the calls of a log less than `window` seconds old at time now
RecentCalls(log, now, window) == SelectSeq(log, LAMBDA c : now - c.at < window)

\* the calls of the log that returned True
AllowedCalls(log) == SelectSeq(log, LAMBDA c : c.allowed)

\* a request reaches an endpoint guarded by check_rate_limit
EndpointRateLimit ==
    \E request \in ApiRequests, gap \in RedisGaps :
        LET now == clock + gap
            checked == redis_check_rate_limit(request, Limit, Window, now,
                                              redis_client)
        IN  /\ now <= MaxRedisClock
            /\ clock' = now
            /\ redis_client' = checked.redis
            /\ calls' =
                   [k \in DOMAIN calls \cup {checked.key} |->
                       IF k = checked.key
                       THEN Append(RecentCalls(Get(calls, k, <<>>), now, Window),
                                   [at |-> now, allowed |-> checked.allowed])
                       ELSE RecentCalls(calls[k], now, Window)]
            /\ UNCHANGED <<engineVars, rateVars, analyticsVars, monitorVars>>

NextRedis == EndpointRateLimit

SpecRedis == Init /\ [][NextRedis]_vars

(***************************************************************************)
(* src/core/analytics_manager.py: AnalyticsManager.                        *)
(*   analytics_data  self.analytics_data: for each content_id its metrics  *)
(*                   and the time of the last update                       *)
(*   tracking        the latest track_content_performance call: its        *)
(*                   arguments, what it returned and the store before it   *)
(***************************************************************************)
MaxTrackings == 3

\* a content_id that cannot be a dict key (a list): `in` raises TypeError
Unhashable == "<list>"

ContentIds == {"test_content_1", "test_content_2", Unhashable}

\* metrics=None, as in the error-handling test
None == [none |-> TRUE]

\* the metrics dicts tracked
TrackedMetrics ==
    { EmptyDict, [views |-> 100], [views |-> 200, interactions |-> 50] }

\* AnalyticsManager.track_content_performance at time now: the store
\* afterwards and the value returned.  An exception leaves the try block at
\* the statement that raised it; what was assigned before stays.
track_content_performance(data, content_id, metrics, now) ==
    IF content_id = Unhashable
    THEN [analytics_data |-> data, returned |-> FALSE]
    ELSE LET created ==
                 IF content_id \notin DOMAIN data
                 THEN Update(data, content_id :>
                                 [metrics |-> EmptyDict, last_updated |-> now])
                 ELSE data
         IN  IF metrics = None
             THEN [analytics_data |-> created, returned |-> FALSE]
             ELSE [analytics_data |->
                       Update(created, content_id :>
                           [metrics |-> Update(created[content_id].metrics, metrics),
                            last_updated |-> now]),
                   returned |-> TRUE]

\* AnalyticsManager.get_content_analytics: None if not found
get_content_analytics(data, content_id) == Get(data, content_id, None)

TrackContentPerformance ==
    \E content_id \in ContentIds, metrics \in TrackedMetrics \cup {None} :
        LET now == clock + 1
            done == track_content_performance(analytics_data, content_id,
                                              metrics, now)
        IN  /\ now <= MaxTrackings
            /\ clock' = now
            /\ analytics_data' = done.analytics_data
            /\ tracking' = [called |-> TRUE, content_id |-> content_id,
                            metrics |-> metrics, returned |-> done.returned,
                            before |-> analytics_data]
            /\ UNCHANGED <<engineVars, rateVars, redisVars, monitorVars>>

NextAnalytics == TrackContentPerformance

SpecAnalytics == Init /\ [][NextAnalytics]_vars

(***************************************************************************)
(* src/utils/monitoring.py: PerformanceMonitor, as src/main.py uses it.    *)
(* process_content is a coroutine: the event loop runs one coroutine at a  *)
(* time and switches only at an await.  The monitoring thread is an OS     *)
(* thread: it can run between any two steps of a coroutine.                *)
(*   monitor     the fields of the PerformanceMonitor                      *)
(*   coroutines  for each request where its coroutine stands and the value *)
(*               of active_requests it loaded for += 1 or -= 1             *)
(*   loop        the request whose coroutine the event loop is running     *)
(*   sampler     the monitoring thread: where it stands, the metrics it    *)
(*               collected, the samples taken                              *)
(***************************************************************************)
MaxSamples == 2

\* a variant in which every handler runs on a thread of its own
EventLoopIdle_Threaded == TRUE

\* async def process_content: the handlers are coroutines of one event loop,
\* which starts or resumes one only when no other is running
EventLoopIdle == loop = NoRequest

\* what the monitor and the request coroutines leave alone
otherVars == <<engineVars, clock, rateVars, redisVars, analyticsVars>>

\* the event loop picks a coroutine that is ready to run: a new request or
\* one whose await completed
Dispatch(r) ==
    /\ EventLoopIdle
    /\ monitor.monitoring
    /\ coroutines[r].pc \in {"new", "awaiting"}
    /\ loop' = r
    /\ coroutines' = [coroutines EXCEPT ![r].pc =
                         IF @ = "new" THEN "start_load" ELSE "end_load"]
    /\ UNCHANGED <<monitor, sampler, otherVars>>

\* start_request, self.active_requests += 1: the attribute is loaded
StartLoad(r) ==
    /\ coroutines[r].pc = "start_load"
    /\ coroutines' = [coroutines EXCEPT ![r] =
                         [pc |-> "start_store", loaded |-> monitor.active_requests]]
    /\ UNCHANGED <<monitor, loop, sampler, otherVars>>

\* start_request: the sum is stored; the call returns time.time()
StartStore(r) ==
    /\ coroutines[r].pc = "start_store"
    /\ monitor' = [monitor EXCEPT !.active_requests = coroutines[r].loaded + 1]
    /\ coroutines' = [coroutines EXCEPT ![r].pc = "handler"]
    /\ UNCHANGED <<loop, sampler, otherVars>>

\* the handler reaches an await (validate_file, processor.process_content)
\* and gives up the event loop
Await(r) ==
    /\ coroutines[r].pc = "handler"
    /\ coroutines' = [coroutines EXCEPT ![r].pc = "awaiting"]
    /\ loop' = NoRequest
    /\ UNCHANGED <<monitor, sampler, otherVars>>

\* the handler fails before its first await (mkdir, copyfileobj): the
\* finally clause runs end_request at once
FailEarly(r) ==
    /\ coroutines[r].pc = "handler"
    /\ coroutines' = [coroutines EXCEPT ![r].pc = "end_load"]
    /\ UNCHANGED <<monitor, loop, sampler, otherVars>>

\* end_request, self.active_requests -= 1: the attribute is loaded
EndLoad(r) ==
    /\ coroutines[r].pc = "end_load"
    /\ coroutines' = [coroutines EXCEPT ![r] =
                         [pc |-> "end_store", loaded |-> monitor.active_requests]]
    /\ UNCHANGED <<monitor, loop, sampler, otherVars>>

\* end_request: the difference is stored
EndStore(r) ==
    /\ coroutines[r].pc = "end_store"
    /\ monitor' = [monitor EXCEPT !.active_requests = coroutines[r].loaded - 1]
    /\ coroutines' = [coroutines EXCEPT ![r].pc = "end_record"]
    /\ UNCHANGED <<loop, sampler, otherVars>>

\* end_request: the response time (positive; 1 stands for it) is written to
\* the latest metrics, if there are any; the handler returns
EndRecord(r) ==
    /\ coroutines[r].pc = "end_record"
    /\ monitor' =
           IF monitor.metrics_history # <<>>
           THEN [monitor EXCEPT
                    !.metrics_history[Len(monitor.metrics_history)].response_time_ms = 1]
           ELSE monitor
    /\ coroutines' = [coroutines EXCEPT ![r].pc = "done"]
    /\ loop' = NoRequest
    /\ UNCHANGED <<sampler, otherVars>>

\* _background_monitoring: while self.monitoring
SamplerCheck ==
    /\ sampler.pc = "check"
    /\ sampler' = [sampler EXCEPT !.pc = IF monitor.monitoring THEN "collect"
                                         ELSE "stopped"]
    /\ UNCHANGED <<monitor, coroutines, loop, otherVars>>

\* _collect_metrics: active_requests=self.active_requests
SamplerCollect ==
    /\ sampler.pc = "collect"
    /\ sampler.samples < MaxSamples
    /\ sampler' = [sampler EXCEPT
                      !.pc = "append",
                      !.metrics = [active_requests |-> monitor.active_requests,
                                   response_time_ms |-> 0],
                      !.samples = @ + 1]
    /\ UNCHANGED <<monitor, coroutines, loop, otherVars>>

\* self.metrics_history.append(metrics), the last 1000 kept, _save_metrics,
\* time.sleep(60)
SamplerAppend ==
    /\ sampler.pc = "append"
    /\ LET appended == Append(monitor.metrics_history, sampler.metrics)
           n == Len(appended)
       IN  monitor' = [monitor EXCEPT !.metrics_history =
                          IF n > 1000 THEN SubSeq(appended, n - 999, n)
                          ELSE appended]
    /\ sampler' = [sampler EXCEPT !.pc = "check", !.metrics = NoMetrics]
    /\ UNCHANGED <<coroutines, loop, otherVars>>

\* shutdown_event: monitor.stop() sets self.monitoring = False
StopMonitor ==
    /\ EventLoopIdle
    /\ monitor.monitoring
    /\ monitor' = [monitor EXCEPT !.monitoring = FALSE]
    /\ UNCHANGED <<coroutines, loop, sampler, otherVars>>

NextMonitor ==
    \/ \E r \in Requests :
          \/ Dispatch(r) \/ StartLoad(r) \/ StartStore(r)
          \/ Await(r) \/ FailEarly(r)
          \/ EndLoad(r) \/ EndStore(r) \/ EndRecord(r)
    \/ SamplerCheck \/ SamplerCollect \/ SamplerAppend
    \/ StopMonitor

SpecMonitor == Init /\ [][NextMonitor]_vars

(***************************************************************************)
(* Properties.                                                             *)
(***************************************************************************)
OptimizeOps ==
    {"seo.optimize_content", "geo.optimize_content",
     "seo2.optimize_content", "geo2.optimize_content"}

\* the input (validation) errors an optimizer raises
InputErrors ==
    {"ValueError: Content cannot be empty",
     "ValueError: At least one target platform must be specified",
     "ValueError: Unsupported platform"}

RaisedInputError == outcome = "raised" /\ result.error \in InputErrors

UnknownPlatformIn(target_platforms) ==
    \E i \in 1..Len(target_platforms) : target_platforms[i] \notin KnownPlatforms

\* C1: the score is within 0..100: what SEOOptimizer._calculate_score and
\* GEOOptimizer._calculate_score return for any metric values, and the score
\* of every result of optimize_content.
C1_ScoreInRange ==
    /\ op \in {"seo.calculate_score", "geo.calculate_score"}
          => (result.score >= 0 /\ result.score <= 100)
    /\ (op \in {"seo.optimize_content", "geo.optimize_content"}
        /\ outcome = "returned")
          => (result.score >= 0 /\ result.score <= 100)

\* C1 witness: a metric set whose deductions exceed 100 scored 0.
C1_Witness ==
    /\ op = "seo.calculate_score"
    /\ "issues" \in DOMAIN args.metrics
    /\ Len(args.metrics["issues"]) >= 12
    /\ Get(args.metrics, "word_count", 0) < 300
    /\ result.score = 0

\* the SEO score as the specification words it
SeoScoreFormula(metrics) ==
    LET wc == IF "word_count" \in DOMAIN metrics THEN metrics["word_count"] ELSE 0
        W == IF wc < 300 THEN 20 ELSE IF wc < 600 THEN 10 ELSE 0
        asl == IF "avg_sentence_length" \in DOMAIN metrics
               THEN metrics["avg_sentence_length"] ELSE [n |-> 0, d |-> 1]
        R == IF asl.n > 25 * asl.d THEN 10 ELSE 0
        noH1 == \/ "headings" \notin DOMAIN metrics
                \/ "h1" \notin DOMAIN metrics["headings"]
                \/ metrics["headings"]["h1"] = 0
        H == IF noH1 THEN 10 ELSE 0
        L == IF "links" \notin DOMAIN metrics \/ metrics["links"] = 0 THEN 5 ELSE 0
        k == IF "issues" \in DOMAIN metrics THEN Len(metrics["issues"]) ELSE 0
        raw == 100 - W - R - H - L - 5 * k
    IN  IF raw < 0 THEN 0 ELSE IF raw > 100 THEN 100 ELSE raw

\* C2: for every SEO metric set the SEO score is
\* clamp(100 - W - R - H - L - 5k, 0, 100), W = 20 below 300 words, 10 below
\* 600; R = 10 if avg_sentence_length > 25; H = 10 without an H1; L = 5
\* without links; k the number of keyword-density issues.
C2_SeoScoreFormula ==
    /\ op = "seo.calculate_score"
          => result.score = SeoScoreFormula(args.metrics)
    /\ (op = "seo.optimize_content" /\ outcome = "returned")
          => result.score = SeoScoreFormula(result.metrics)

\* C2 witness: a call in which the 10-point word deduction, the sentence,
\* H1 and link deductions and two keyword issues all applied.
C2_Witness ==
    /\ op = "seo.optimize_content" /\ outcome = "returned"
    /\ result.metrics["word_count"] = 599
    /\ "issues" \in DOMAIN result.metrics
    /\ Len(result.metrics["issues"]) = 2
    /\ result.score = 100 - 10 - 10 - 10 - 5 - 10

\* the six GEO deductions as conditions on the content
GeoDeductions(content) ==
    LET avg == IF content.sents > 0 THEN [n |-> content.words, d |-> content.sents]
               ELSE [n |-> 0, d |-> 1]
        dev == IF 15 * avg.d >= avg.n THEN 15 * avg.d - avg.n
               ELSE avg.n - 15 * avg.d
    IN  [complex |-> IF content.sents > 0 /\ 10 * content.complex > 3 * content.sents
                     THEN 10 ELSE 0,
         transition |-> IF content.sents = 0 \/ 10 * content.trans < 2 * content.sents
                        THEN 10 ELSE 0,
         citation |-> IF content.cites = 0 THEN 15 ELSE 0,
         verifiable |-> IF content.claims + content.cites < 3 THEN 10 ELSE 0,
         natural |-> IF 100 * avg.d - 3 * dev < 70 * avg.d THEN 10 ELSE 0,
         conversational |-> IF content.convs = 0 THEN 5 ELSE 0]

\* C3 as claimed: every GEO optimize_content call applies each of the six
\* deductions whenever its condition holds for the content.
C3_AllSixDeductions ==
    (op = "geo.optimize_content" /\ outcome = "returned") =>
        LET d == GeoDeductions(args.content)
        IN  result.score = 100 - d.complex - d.transition - d.citation
                               - d.verifiable - d.natural - d.conversational

\* C3 amended: the two context deductions always apply; the citation and
\* verifiable-statement deductions apply only when "factual" is among the
\* optimization goals, the natural-language and conversational deductions
\* only when "voice_search" is.
C3_GoalGatedDeductions ==
    (op = "geo.optimize_content" /\ outcome = "returned") =>
        LET d == GeoDeductions(args.content)
            f == IF "factual" \in args.optimization_goals
                 THEN d.citation + d.verifiable ELSE 0
            v == IF "voice_search" \in args.optimization_goals
                 THEN d.natural + d.conversational ELSE 0
        IN  result.score = 100 - d.complex - d.transition - f - v

\* C3 witness: a call without the "factual" goal on content without
\* citations: the 15 points were not deducted.
C3_Witness ==
    /\ op = "geo.optimize_content" /\ outcome = "returned"
    /\ args.optimization_goals = {"context", "voice_search"}
    /\ args.content.cites = 0
    /\ GeoDeductions(args.content).complex = 10
    /\ result.score = 100 - 10 - 10 - 10 - 5

\* C4: optimize_content with empty content raises an input error and
\* produces no result, in the SEO and in the GEO optimizers.
C4_EmptyContentRaises ==
    (op \in OptimizeOps /\ IsEmpty(args.content)) => RaisedInputError

\* C5: GEO optimize_content with a target platform other than chatgpt,
\* claude or voice raises an input error and returns no result.
C5_UnknownPlatformRaises ==
    (op \in {"geo.optimize_content", "geo2.optimize_content"}
     /\ UnknownPlatformIn(args.target_platforms)) => RaisedInputError

\* C6: SEO optimize_content with max_keyword_density outside (0, 1] raises
\* an input error instead of returning a result.
C6_DensityOutOfRangeRaises ==
    (op \in {"seo.optimize_content", "seo2.optimize_content"}
     /\ (args.max_keyword_density <= 0 \/ args.max_keyword_density > 1000))
        => RaisedInputError

\* C7: a call that ends in a validation error raised it before any metric
\* extractor ran.
C7_ValidationFailsFast ==
    (op \in OptimizeOps /\ RaisedInputError) => ran = <<>>

\* C8: when a metric extractor throws, the call still returns a result, in
\* which that metric group is marked failed and the other groups are present.
C8_ExtractorFaultIsolated ==
    (op \in OptimizeOps /\ faulted # "none") =>
        /\ outcome = "returned"
        /\ faulted \in DOMAIN result.metrics
        /\ "error" \notin DOMAIN result.metrics

C10_ScoreIsInteger ==
    /\ (op \in {"seo.optimize_content", "geo.optimize_content",
                "geo2.optimize_content"} /\ outcome = "returned")
          => result.score \in Int
    /\ (op = "seo2.optimize_content" /\ outcome = "returned")
          => RatIsInt(result.score)
    /\ (op = "router.optimize_combined" /\ outcome = "returned")
          => RatIsInt(result.response.combined_score)

NoDuplicates(seq) ==
    \A i, j \in 1..Len(seq) : i # j => seq[i] # seq[j]

\* C11: the suggestions list of every result, SEO and GEO, contains no two
\* equal strings, also when the length rule of optimize_content and the
\* length rule of _generate_suggestions both fire (min_word_count = 300).
C11_NoDuplicateSuggestions ==
    /\ (op \in OptimizeOps /\ outcome = "returned")
          => NoDuplicates(result.suggestions)
    /\ (op = "router.optimize_combined" /\ outcome = "returned")
          => /\ NoDuplicates(result.response.seo_metrics.suggestions)
             /\ NoDuplicates(result.response.geo_metrics.suggestions)

\* C11 witness: 299 words with min_word_count = 300: both length rules fired.
C11_Witness ==
    /\ op = "seo.optimize_content" /\ outcome = "returned"
    /\ args.min_word_count = 300 /\ args.content.words = 299
    /\ Len(result.suggestions) >= 2
    /\ result.suggestions[1] = LengthMessage(299, 300)
    /\ result.suggestions[2] = "Increase content length to at least 300 words"

AnalyzeKeywordsOps == {"seo.analyze_keywords", "seo.analyze_keywords.after_replace"}

\* C13: for every content and every target keyword the keyword density
\* reported by _analyze_keywords lies in [0, 1].
C13_DensityInUnitInterval ==
    /\ op \in AnalyzeKeywordsOps =>
          \A k \in DOMAIN result.keyword_density :
              LET d == result.keyword_density[k]
              IN  d.n >= 0 /\ d.n <= d.d
    /\ (op \in {"seo.optimize_content"} /\ outcome = "returned"
        /\ "keyword_density" \in DOMAIN result.metrics) =>
          \A k \in DOMAIN result.metrics["keyword_density"] :
              LET d == result.metrics["keyword_density"][k]
              IN  d.n >= 0 /\ d.n <= d.d

\* C16: replacing a word that is not the keyword by one more occurrence of
\* the keyword (word count unchanged) decreases neither the keyword's
\* keyword_count nor its keyword_density.
C16_DensityMonotone ==
    op = "seo.analyze_keywords.after_replace" =>
        LET k == args.keyword
            c0 == args.before.keyword_count[k]
            d0 == args.before.keyword_density[k]
            c1 == result.keyword_count[k]
            d1 == result.keyword_density[k]
        IN  c1 >= c0 /\ d1.n * d0.d >= d0.n * d1.d

\* metrics with an H1, a link, no keyword issue and avg_sentence_length <= 25:
\* only the word count can cost points
OnlyLengthCounts(metrics) ==
    /\ "word_count" \in DOMAIN metrics
    /\ "headings" \in DOMAIN metrics /\ "h1" \in DOMAIN metrics["headings"]
    /\ metrics["headings"]["h1"] >= 1
    /\ "links" \in DOMAIN metrics /\ metrics["links"] >= 1
    /\ ("issues" \in DOMAIN metrics => metrics["issues"] = <<>>)
    /\ ("avg_sentence_length" \in DOMAIN metrics =>
            metrics["avg_sentence_length"].n <= 25 * metrics["avg_sentence_length"].d)

\* the metrics scored in the current state, if any
ScoredSeoMetrics ==
    IF op = "seo.calculate_score" THEN args.metrics
    ELSE IF op = "seo.optimize_content" /\ outcome = "returned" THEN result.metrics
    ELSE EmptyDict

\* C14 as claimed: 300 words incur no word-count deduction: content with
\* exactly 300 words, an H1, a link, no keyword issue and
\* avg_sentence_length <= 25 scores 100.
C14_ThreeHundredScoresHundred ==
    (OnlyLengthCounts(ScoredSeoMetrics) /\ ScoredSeoMetrics["word_count"] = 300)
        => result.score = 100

\* C14 amended: the 20-point deduction ends at 300 words, where the 10-point
\* deduction of the 300..599 tier begins: with an H1, a link, no keyword
\* issue and avg_sentence_length <= 25, 299 words score 80, 300 and 599
\* words score 90, and 600 words score 100.
C14_BoundaryAtThreeHundred ==
    OnlyLengthCounts(ScoredSeoMetrics) =>
        LET wc == ScoredSeoMetrics["word_count"]
        IN  /\ wc = 299 => result.score = 80
            /\ wc = 300 => result.score = 90
            /\ wc = 599 => result.score = 90
            /\ wc = 600 => result.score = 100

\* C14 witness: an optimize_content call on 300 words with an H1 and a link
\* scored 90.
C14_Witness ==
    /\ op = "seo.optimize_content" /\ outcome = "returned"
    /\ OnlyLengthCounts(result.metrics)
    /\ result.metrics["word_count"] = 300
    /\ result.score = 90

\* content without citations and conversational phrases, more than 30% of
\* whose sentences are complex
UncitedComplexContent(content) ==
    /\ content.cites = 0 /\ content.convs = 0
    /\ content.sents > 0 /\ 10 * content.complex > 3 * content.sents

\* C15 as claimed: for any target_platforms and optimization_goals, content
\* with zero citations, zero conversational phrases and
\* complex_sentence_ratio > 0.3 scores at most 70.
C15_AtMostSeventy ==
    (op = "geo.optimize_content" /\ outcome = "returned"
     /\ UncitedComplexContent(args.content)) => result.score <= 70

\* C15 amended: on such content the complexity deduction of 10 always
\* applies, the citation deduction of 15 when "factual" is among the goals
\* and the conversational deduction of 5 when "voice_search" is: the score
\* is at most 70 with both goals, and at most 90 - 15 - 5 less the
\* deductions whose goal is absent otherwise.
C15_GoalGatedBound ==
    (op = "geo.optimize_content" /\ outcome = "returned"
     /\ UncitedComplexContent(args.content)) =>
        result.score <= 90
                        - (IF "factual" \in args.optimization_goals THEN 15 ELSE 0)
                        - (IF "voice_search" \in args.optimization_goals THEN 5 ELSE 0)

\* C15 witness: such content under the goals context and factual scored 75,
\* the complexity and citation deductions alone.
C15_Witness ==
    /\ op = "geo.optimize_content" /\ outcome = "returned"
    /\ UncitedComplexContent(args.content)
    /\ args.optimization_goals = {"context", "factual"}
    /\ result.score = 75

\* a ratio within 0..100
InPercentRange(r) == r.n >= 0 /\ r.n <= 100 * r.d

\* C17: natural_language_score, and the chatgpt clarity_score computed by
\* the same formula, is clamp(100 - |15 - avgSentenceLength| * 3, 0, 100):
\* never negative and never above 100.
C17_NaturalLanguageScoreClamped ==
    /\ (op = "geo.optimize_for_platform" /\ args.platform = "voice")
          => InPercentRange(result.voice_search.natural_language_score)
    /\ (op = "geo.optimize_for_platform" /\ args.platform = "chatgpt")
          => InPercentRange(result.chatgpt_metrics.clarity_score)
    /\ (op = "geo.optimize_content" /\ outcome = "returned"
        /\ "voice_search" \in DOMAIN result.metrics)
          => InPercentRange(result.metrics["voice_search"].natural_language_score)

\* no rule of the SEO suggestion table is breached by the metrics
NoSeoBreach(metrics, min_word_count) ==
    /\ metrics["word_count"] >= min_word_count /\ metrics["word_count"] >= 300
    /\ metrics["avg_sentence_length"].n <= 25 * metrics["avg_sentence_length"].d
    /\ "h1" \in DOMAIN metrics["headings"] /\ metrics["headings"]["h1"] >= 1
    /\ "h2" \in DOMAIN metrics["headings"] /\ metrics["headings"]["h2"] >= 1
    /\ metrics["links"] >= 1 /\ metrics["images"] >= 1
    /\ "issues" \notin DOMAIN metrics

\* C18: when no SEO threshold is breached the SEO suggestions consist of
\* exactly one affirmative message, so the suggestions of an SEO result are
\* never empty.
C18_AffirmativeWhenNoBreach ==
    /\ (op \in {"seo.optimize_content", "seo2.optimize_content"}
        /\ outcome = "returned")
          => result.suggestions # <<>>
    /\ (op = "seo.optimize_content" /\ outcome = "returned"
        /\ NoSeoBreach(result.metrics, args.min_word_count))
          => Len(result.suggestions) = 1

SeoSteps == {"word_count", "keywords", "readability", "meta", "structure"}

\* C19: combined mode is a sequential pipeline: every step of the SEO
\* optimization runs before any step of the GEO optimization, the GEO stage is
\* given the optimized_content the SEO stage returned, and the response's
\* optimized_content is the one the GEO stage returned.
C19_SequentialPipeline ==
    (op = "router.optimize_combined" /\ outcome = "returned") =>
        /\ \E k \in 1..(Len(ran) - 1) :
              /\ \A i \in 1..k : ran[i] \in SeoSteps
              /\ \A i \in (k + 1)..Len(ran) : ran[i] \notin SeoSteps
        /\ result.stages.seo.input = args.content
        /\ result.stages.geo.input = result.stages.seo.output
        /\ result.response.optimized_content = result.stages.geo.output
        /\ result.response.original_content = args.content

\* C19 witness: a combined request with keywords and the factual goal was
\* answered: five SEO steps, then the GEO steps.
C19_Witness ==
    /\ op = "router.optimize_combined" /\ outcome = "returned"
    /\ Len(ran) >= 7
    /\ ran[2] = "keywords" /\ ran[5] = "structure"
    /\ ran[6] = "context_clarity" /\ ran[7] = "factual_consistency"

EndpointOps ==
    {"router.optimize_seo", "router.optimize_geo", "router.optimize_combined"}

\* the target_platforms of the request in the current state, if it has any
RequestedPlatforms ==
    IF op = "router.optimize_geo" THEN args.settings.target_platforms
    ELSE IF op = "router.optimize_combined" THEN args.geo_settings.target_platforms
    ELSE <<>>

\* C20: a request with empty content or with an unknown target platform is
\* answered by /optimize/seo, /optimize/geo and /optimize/combined with a 4xx
\* status, never with a 5xx status and never with 200.
C20_InvalidRequestGetsClientError ==
    (op \in EndpointOps
     /\ (IsEmpty(args.content) \/ UnknownPlatformIn(RequestedPlatforms)))
        => (result.status >= 400 /\ result.status <= 499)

\* C21: a client that sent more than 60 requests within 60 seconds had at
\* least one of them answered 429, and no client has more than 60 requests
\* admitted (not answered 429) within 60 seconds.
C21_RateLimitEnforced ==
    \A ip \in Clients :
        /\ (Sent(ip) > 60) => (Limited(ip) >= 1)
        /\ Sent(ip) - Limited(ip) <= 60

\* C22: content is never rewritten.  In every result of SEO optimize_content
\* and of GEO optimize_content, and in every response of the optimize
\* endpoints, optimized_content equals original_content, which equals the
\* content of the request.
C22_ContentNeverRewritten ==
    /\ (op \in OptimizeOps /\ outcome = "returned") =>
          /\ result.original_content = args.content
          /\ result.optimized_content = result.original_content
    /\ (op \in EndpointOps /\ outcome = "returned") =>
          /\ result.response.original_content = args.content
          /\ result.response.optimized_content = result.response.original_content

\* C22 witness: a combined request on non-empty content answered with
\* suggestions of both stages, the content handed back as it came.
C22_Witness ==
    /\ op = "router.optimize_combined" /\ outcome = "returned"
    /\ ~IsEmpty(args.content)
    /\ result.response.seo_metrics.suggestions # <<>>
    /\ result.response.geo_metrics.suggestions # <<>>
    /\ result.response.optimized_content = args.content

\* the steps of the call in the current state
StepsRan == { ran[i] : i \in 1..Len(ran) }

C23_WitnessFailed ==
    /\ op = "router.optimize_geo" /\ outcome = "raised"
    /\ result.status = 500 /\ ~result.saved
    /\ Len(ran) >= 4 /\ SaveTask \notin StepsRan

LengthMessages ==
    { LengthMessage(w, m) : w \in WordCounts, m \in MinWordCounts }
        \cup {"Increase content length to at least 300 words"}

\* the place of an SEO suggestion in the order word count (1), keyword
\* density (2), readability (3), structure / headings (4), links (5),
\* images (6); 0 for a string of no rule
SeoRuleRank(s) ==
    IF s \in LengthMessages THEN 1
    ELSE IF s \in { "Keyword '" \o k \o "' density exceeds recommended maximum" :
                      k \in Keywords } THEN 2
    ELSE IF s = "Consider breaking down long sentences for better readability" THEN 3
    ELSE IF s \in {"Add an H1 heading to your content",
                   "Consider adding H2 subheadings to structure your content"} THEN 4
    ELSE IF s = "Add relevant internal or external links" THEN 5
    ELSE IF s = "Consider adding relevant images with alt text" THEN 6
    ELSE 0

\* the place of a GEO suggestion in the order context (1), factual (2),
\* voice (3); 0 for a string of no rule
GeoRuleRank(s) ==
    IF s \in {"Simplify complex sentences for better AI comprehension",
              "Add more transition words to improve flow"} THEN 1
    ELSE IF s \in {"Add citations or references to support claims",
                   "Include more verifiable facts or statistics"} THEN 2
    ELSE IF s \in {"Add natural questions to optimize for voice search",
                   "Include more conversational phrases"} THEN 3
    ELSE 0

\* every string belongs to a rule and the rules appear in their order
InRuleOrder(suggestions, Rank(_)) ==
    /\ \A i \in 1..Len(suggestions) : Rank(suggestions[i]) >= 1
    /\ \A i, j \in 1..Len(suggestions) :
          i < j => Rank(suggestions[i]) <= Rank(suggestions[j])

\* C24: suggestions are emitted in a fixed order whatever the content: in an
\* SEO result in the order word count, keyword density, readability,
\* structure / headings, links, images; in a GEO result in the order context,
\* factual, voice.
C24_FixedSuggestionOrder ==
    /\ (op = "seo.optimize_content" /\ outcome = "returned") =>
          InRuleOrder(result.suggestions, SeoRuleRank)
    /\ (op = "geo.optimize_content" /\ outcome = "returned") =>
          InRuleOrder(result.suggestions, GeoRuleRank)

\* C24 witness: an SEO result in which every rule that has a suggestion fired
\* (both length messages, long sentences, H1, H2, links, images).
C24_Witness ==
    /\ op = "seo.optimize_content" /\ outcome = "returned"
    /\ Len(result.suggestions) = 7
    /\ SeoRuleRank(result.suggestions[1]) = 1
    /\ SeoRuleRank(result.suggestions[3]) = 3
    /\ SeoRuleRank(result.suggestions[7]) = 6

\* a GEO result with the six suggestions of its three groups
C24_WitnessGeo ==
    /\ op = "geo.optimize_content" /\ outcome = "returned"
    /\ Len(result.suggestions) = 6

\* 1 if the rule is breached, else 0
Breached(b) == IF b THEN 1 ELSE 0

\* the metric thresholds an SEO result breaches: word count below the
\* minimum, long sentences, no H1, no H2, no links, no images
SeoBreaches(metrics, min_word_count) ==
    LET headings == Get(metrics, "headings", EmptyDict)
    IN  Breached(metrics["word_count"] < min_word_count
                 \/ metrics["word_count"] < 300)
      + Breached(RatGT(Get(metrics, "avg_sentence_length", Ratio(0, 1)), 25, 1))
      + Breached(Get(headings, "h1", 0) = 0)
      + Breached(Get(headings, "h2", 0) = 0)
      + Breached(Get(metrics, "links", 0) = 0)
      + Breached(Get(metrics, "images", 0) = 0)

\* C25: each breached metric threshold yields exactly one suggestion: no
\* breach (such as a word count below the minimum) contributes two
\* suggestions, and an SEO result holds as many suggestions as it breaches
\* rules.
C25_OneSuggestionPerBreach ==
    (op = "seo.optimize_content" /\ outcome = "returned") =>
        /\ Cardinality({ i \in 1..Len(result.suggestions) :
                           SeoRuleRank(result.suggestions[i]) = 1 }) <= 1
        /\ Len(result.suggestions)
               = SeoBreaches(result.metrics, args.min_word_count)

\* the result optimize_content gives for the arguments of a reordered run
ResultInCodeOrder ==
    IF op = "seo.merged"
    THEN SEO_optimize_content(args.content, args.target_keywords,
                              args.min_word_count, args.max_keyword_density,
                              FALSE).result
    ELSE GEO_optimize_content(args.content, args.target_platforms,
                              args.optimization_goals).result

\* the order of the current reordered run is not the order of the code
Reordered == \E i \in DOMAIN args.order : args.order[i] # i

\* C26: the order of the extractors does not affect the output: merging the
\* metric groups in any order gives the metrics, the score and the
\* suggestions that optimize_content gives.
C26_MergeOrderIrrelevant ==
    op \in {"seo.merged", "geo.merged"} =>
        /\ result.metrics = ResultInCodeOrder.metrics
        /\ result.score = ResultInCodeOrder.score
        /\ result.suggestions = ResultInCodeOrder.suggestions

\* C26 witness: an SEO run with keywords whose groups were merged last to
\* first, with the metrics of all four extractors in the result.
C26_Witness ==
    /\ op = "seo.merged" /\ Reordered
    /\ args.order = <<4, 3, 2, 1>>
    /\ {"word_count", "keyword_density", "avg_sentence_length", "headings"}
           \subseteq DOMAIN result.metrics
    /\ result.metrics = ResultInCodeOrder.metrics

\* a GEO run with two platforms and all goals, the platforms merged first
C26_WitnessGeo ==
    /\ op = "geo.merged" /\ Len(args.order) = 5
    /\ args.order[1] = 5 /\ args.order[2] = 4
    /\ result.metrics = ResultInCodeOrder.metrics

\* C27: score and suggestions agree: in every result of SEO or GEO
\* optimize_content with a deduction applied (score below 100) the
\* suggestions list is non-empty.
C27_DeductionHasSuggestion ==
    (op \in {"seo.optimize_content", "geo.optimize_content"}
     /\ outcome = "returned" /\ result.score < 100)
        => result.suggestions # <<>>

\* the same for the GEO results alone
C27_GeoDeductionHasSuggestion ==
    (op = "geo.optimize_content" /\ outcome = "returned" /\ result.score < 100)
        => result.suggestions # <<>>

\* C28: the Redis-backed RateLimiter admits at most `limit` requests per
\* identifier per window: of the is_allowed calls for one identifier whose
\* times lie within one span of `window` seconds, at most `limit` returned
\* True.
C28_AtMostLimitPerWindow ==
    \A k \in DOMAIN calls : Len(AllowedCalls(calls[k])) <= Limit

\* C29: a failed track_content_performance leaves the analytics store
\* unchanged: when the call returned False, analytics_data is what it was
\* before the call, with no entry created for the content_id.
C29_FailedTrackingChangesNothing ==
    (tracking.called /\ ~tracking.returned) =>
        /\ analytics_data = tracking.before
        /\ (tracking.content_id \notin DOMAIN tracking.before
               => get_content_analytics(analytics_data, tracking.content_id) = None)

\* the requests for which start_request has returned and end_request has not
\* yet stored its decrement
StartedNotEnded ==
    { r \in Requests : coroutines[r].pc \in {"handler", "awaiting", "end_load",
                                            "end_store"} }

\* C30: under any interleaving of the start_request and end_request calls of
\* concurrent requests with the monitoring thread running, active_requests
\* is the number of requests started and not yet ended, and is never
\* negative.
C30_ActiveRequestsExact ==
    /\ monitor.active_requests = Cardinality(StartedNotEnded)
    /\ monitor.active_requests >= 0
    /\ \A i \in 1..Len(monitor.metrics_history) :
          monitor.metrics_history[i].active_requests \in 0..NumRequests

\* the coroutine between its dispatch and its next await or return is the
\* one the event loop is running
C30_OneCoroutineRuns ==
    \A r \in Requests :
        coroutines[r].pc \notin {"new", "awaiting", "done"} => loop = r

\* C30 witness: two requests are awaiting, a third is inside start_request
\* with the attribute loaded, and the monitoring thread has sampled the
\* counter in between.
C30_Witness ==
    /\ Cardinality({ r \in Requests : coroutines[r].pc = "awaiting" }) = 2
    /\ \E r \in Requests : coroutines[r].pc = "start_store"
    /\ monitor.active_requests = 2
    /\ monitor.metrics_history # <<>>
    /\ monitor.metrics_history[Len(monitor.metrics_history)].active_requests = 1

====
